---------------------------- MODULE Spec2Model ----------------------------
(***************************************************************************)
(* Model of transcript-monitor-agent: the TranscriptAnalyzer decision      *)
(* cascade, the debounce/retry utilities and the TranscriptMonitor         *)
(* processing cycle.                                                       *)
(*                                                                         *)
(* Time is in milliseconds and advances in steps of TickMs.  Confidence    *)
(* values are in hundredths (0.9 = 90).                                    *)
(* A transcript is a sequence of one-character strings.                    *)
(***************************************************************************)
EXTENDS Integers, Sequences, FiniteSets, TLC

(***************************************************************************)
(* Bounds of the model.                                                    *)
(***************************************************************************)
MaxLen == 3             \* longest transcript handed to analyze directly
MaxChanges == 2         \* handleTranscriptChange calls in one behaviour of Spec
MaxChangesLong == 11    \* the same, in the long conversation of SpecLong
MaxPending == 1         \* updateTranscript calls awaiting storage.set
EventWindow == 2        \* the observation log covers this many latest changes
MaxSilence == 3000      \* elapsed silence saturates here (above every threshold)
TickMs == 1000          \* granularity of the clock
MaxReads == 2           \* getHistory results kept for comparison
MaxAttempts == 4         \* largest maxAttempts handed to retry directly
MaxPolls == 4           \* polls of the storage in one behaviour
MaxStops == 2           \* stop() calls in one behaviour
LongWords == 10         \* words of the long transcripts handed to ruleBasedAnalysis

(***************************************************************************)
(* Program constants (milliseconds, hundredths).                           *)
(***************************************************************************)
DefaultMinWords == 5
DefaultMaxSilenceMs == 1500
RuleSilenceMs == 2000
ConfTooFew == 20
ConfTrigger == 90
ConfSilence == 50

Unset == -1             \* an option the caller left out (undefined)
NoProvider == "undefined"

Alphabet == {"H", "i", "?", " ", "."}

(***************************************************************************)
(* String helpers, computed as the JavaScript built-ins compute them.      *)
(***************************************************************************)
IsSpace(c) == c = " "

\* String.prototype.toLowerCase, per character
LowerChar(c) == CASE c = "H" -> "h"
                  [] c = "I" -> "i"
                  [] OTHER  -> c

ToLower(s) == [i \in 1..Len(s) |-> LowerChar(s[i])]

StartsWith(s, p) == Len(s) >= Len(p) /\ SubSeq(s, 1, Len(p)) = p

\* String.prototype.includes
Includes(s, p) ==
    \E i \in 1..(Len(s) - Len(p) + 1) : SubSeq(s, i, i + Len(p) - 1) = p

\* String.prototype.trim
RECURSIVE TrimLeft(_)
TrimLeft(s) == IF s # <<>> /\ IsSpace(Head(s)) THEN TrimLeft(Tail(s)) ELSE s

RECURSIVE TrimRight(_)
TrimRight(s) == IF s # <<>> /\ IsSpace(s[Len(s)])
                THEN TrimRight(SubSeq(s, 1, Len(s) - 1)) ELSE s

Trim(s) == TrimRight(TrimLeft(s))

\* s.split(/\s+/): the pieces between maximal runs of whitespace; a leading
\* or trailing run leaves an empty piece, and "" splits into [""].
RECURSIVE SplitFrom(_, _, _, _)
SplitFrom(s, i, acc, cur) ==
    IF i > Len(s) THEN Append(acc, cur)
    ELSE IF IsSpace(s[i])
         THEN IF i > 1 /\ IsSpace(s[i - 1])
              THEN SplitFrom(s, i + 1, acc, cur)
              ELSE SplitFrom(s, i + 1, Append(acc, cur), <<>>)
         ELSE SplitFrom(s, i + 1, acc, Append(cur, s[i]))

SplitWs(s) == SplitFrom(s, 1, <<>>, <<>>)

WordCount_unfiltered(s) == Len(SplitWs(s))

\* transcript.split(/\s+/).filter(w => w.length > 0).length
WordCount(s) == Cardinality({i \in 1..Len(SplitWs(s)) : Len(SplitWs(s)[i]) > 0})

HasQuestion(s) == Includes(s, <<"?">>)

\* /^(hi|hello|hey)/i.test(s): a prefix test, no word boundary
GreetingPrefixes == {<<"h", "i">>, <<"h", "e", "l", "l", "o">>, <<"h", "e", "y">>}

\* the same test without the i flag
HasGreeting_caseSensitive(s) == \E p \in GreetingPrefixes : StartsWith(s, p)

HasGreeting(s) == \E p \in GreetingPrefixes : StartsWith(ToLower(s), p)

\* /[.!?]$/.test(s)
EndsSentence(s) == s # <<>> /\ s[Len(s)] \in {".", "!", "?"}

(***************************************************************************)
(* TranscriptAnalyzer                                                      *)
(***************************************************************************)
\* constructor: { provider: 'openai', minWords: 5, maxSilenceMs: 1500, ...config }
NewAnalyzer(config) ==
    [provider       |-> IF config.provider = NoProvider THEN "openai" ELSE config.provider,
     minWords       |-> IF config.minWords = Unset THEN DefaultMinWords ELSE config.minWords,
     maxSilenceMs   |-> IF config.maxSilenceMs = Unset THEN DefaultMaxSilenceMs
                        ELSE config.maxSilenceMs,
     apiKey         |-> config.apiKey,
     customAnalyzer |-> config.customAnalyzer]

\* (this.config.minWords || 5): 0 is falsy
MinWordsThreshold(cfg) == IF cfg.minWords = 0 THEN DefaultMinWords ELSE cfg.minWords

\* (this.config.maxSilenceMs || 1500)
MaxSilenceThreshold(cfg) ==
    IF cfg.maxSilenceMs = 0 THEN DefaultMaxSilenceMs ELSE cfg.maxSilenceMs

Verdict(sr, conf, reason, invoked) ==
    [kind |-> "verdict", shouldRespond |-> sr, confidence |-> conf,
     reason |-> reason, invoked |-> invoked]

Thrown(err, invoked) == [kind |-> "throw", error |-> err, invoked |-> invoked]

Min(a, b) == IF a < b THEN a ELSE b
Max(a, b) == IF a > b THEN a ELSE b

\* ruleBasedAnalysis: additive scoring, clamped to [0.1, 0.95]
RuleBased(t, ctx, invoked) ==
    LET hasQuestion == HasQuestion(t)
        hasGreeting == HasGreeting(t)
        seemsComplete == EndsSentence(t) \/ Len(SplitWs(t)) > 10
        addressed == /\ Trim(ctx.name) # <<>>
                     /\ Includes(ToLower(t), Trim(ToLower(ctx.name)))
        hasRole == Trim(ctx.role) # <<>>
        complete == seemsComplete /\ ctx.silenceDuration > RuleSilenceMs
        base == (IF addressed THEN 30 ELSE 0)
                + (IF hasQuestion THEN 50 ELSE IF hasGreeting THEN 40 ELSE 0)
                + (IF hasRole THEN 10 ELSE 0)
                + (IF complete THEN 20 ELSE 0)
        r0 == IF addressed THEN "Directly addressed" ELSE ""
        r1 == IF hasQuestion
              THEN (IF r0 # "" THEN "Directly addressed, question detected"
                    ELSE "Question detected")
              ELSE IF hasGreeting
              THEN (IF r0 # "" THEN "Directly addressed, greeting detected"
                    ELSE "Greeting detected")
              ELSE r0
        r2 == IF complete
              THEN (IF r1 # "" THEN <<r1, "complete statement">>
                    ELSE <<"Complete statement">>)
              ELSE <<r1>>
        reason == IF r2 = <<"">> THEN <<"Incomplete or unclear">> ELSE r2
    IN  Verdict(addressed \/ hasQuestion \/ hasGreeting \/ complete,
                Min(95, Max(10, base)), reason, invoked \cup {"rule"})

\* What the completion provider hands back to aiAnalysis.  "throw" is a failed
\* call (network error, error-shaped body); otherwise the text of the reply,
\* either not JSON or an object whose fields have the listed JSON types.
AIReplies ==
    {[kind |-> "throw"], [kind |-> "text", json |-> FALSE]}
    \cup [kind : {"text"}, json : {TRUE},
          shouldRespondType : {"boolean", "string"}, shouldRespond : BOOLEAN,
          confidenceType : {"number", "string"}, confidence : {-10, 70, 150},
          reasonType : {"string", "undefined"}, reason : {"ok", ""}]

ParseAndValidate_clamping(reply, t, ctx, invoked) ==
    IF /\ reply.json
       /\ reply.shouldRespondType = "boolean"
       /\ reply.confidenceType = "number"
       /\ reply.reasonType = "string" /\ reply.reason # ""
    THEN Verdict(reply.shouldRespond, Max(0, Min(100, reply.confidence)),
                 <<reply.reason>>, invoked)
    ELSE RuleBased(t, ctx, invoked)

ParseAndValidate_trusting(reply, t, ctx, invoked) ==
    IF reply.json /\ reply.shouldRespondType = "boolean"
    THEN Verdict(reply.shouldRespond, reply.confidence, <<reply.reason>>, invoked)
    ELSE RuleBased(t, ctx, invoked)

\* parseAndValidateResponse
ParseAndValidate(reply, t, ctx, invoked) ==
    IF /\ reply.json
       /\ reply.shouldRespondType = "boolean"
       /\ reply.confidenceType = "number"
       /\ reply.confidence >= 0 /\ reply.confidence <= 100
       /\ reply.reasonType = "string" /\ reply.reason # ""
    THEN Verdict(reply.shouldRespond, Max(0, Min(100, reply.confidence)),
                 <<reply.reason>>, invoked)
    ELSE RuleBased(t, ctx, invoked)

AiAnalysis_propagating(cfg, t, ctx, reply, invoked) ==
    IF cfg.provider \notin {"openai", "anthropic"} \/ reply.kind = "throw"
    THEN Thrown("provider error", invoked \cup {"ai"})
    ELSE ParseAndValidate(reply, t, ctx, invoked \cup {"ai"})

\* aiAnalysis: any failure of the call or of the parse falls back to the rules
AiAnalysis(cfg, t, ctx, reply, invoked) ==
    IF cfg.provider \notin {"openai", "anthropic"} \/ reply.kind = "throw"
    THEN RuleBased(t, ctx, invoked \cup {"ai"})
    ELSE ParseAndValidate(reply, t, ctx, invoked \cup {"ai"})

\* What a caller-supplied customAnalyzer may do: throw, or return any verdict.
CustomReplies ==
    {[kind |-> "throw"]}
    \cup {[kind |-> "verdict", shouldRespond |-> sr, confidence |-> c] :
            sr \in BOOLEAN, c \in {80, 150}}

\* The external input analyze consumes on the branch it takes
Branch(cfg, t, ctx) ==
    IF WordCount(t) < MinWordsThreshold(cfg) THEN "gate"
    ELSE IF HasQuestion(t) \/ HasGreeting(t) THEN "gate"
    ELSE IF ctx.silenceDuration < MaxSilenceThreshold(cfg) THEN "gate"
    ELSE IF cfg.customAnalyzer THEN "custom"
    ELSE IF cfg.provider # "custom" /\ cfg.apiKey THEN "ai"
    ELSE "rule"

ExtChoices(cfg, t, ctx) ==
    CASE Branch(cfg, t, ctx) = "custom" -> CustomReplies
      [] Branch(cfg, t, ctx) = "ai"     -> AIReplies
      [] OTHER                          -> {[kind |-> "none"]}

\* A custom analyzer's verdict with its confidence forced into the 0..1 scale
CustomVerdict_clamped(ext) ==
    Verdict(ext.shouldRespond, Min(ext.confidence, 100), <<"custom">>, {"custom"})

\* return this.config.customAnalyzer(transcript, context): the verdict as given
CustomVerdict(ext) ==
    Verdict(ext.shouldRespond, ext.confidence, <<"custom">>, {"custom"})

\* analyze(transcript, context)
Analyze(cfg, t, ctx, ext) ==
    IF WordCount(t) < MinWordsThreshold(cfg)
    THEN Verdict(FALSE, ConfTooFew, <<"Too few words">>, {})
    ELSE IF HasQuestion(t) \/ HasGreeting(t)
    THEN Verdict(TRUE, ConfTrigger,
                 IF HasQuestion(t) THEN <<"Question detected">>
                 ELSE <<"Greeting detected">>, {})
    ELSE IF ctx.silenceDuration < MaxSilenceThreshold(cfg)
    THEN Verdict(FALSE, ConfSilence, <<"User may still be speaking">>, {})
    ELSE IF cfg.customAnalyzer
    THEN IF ext.kind = "throw" THEN Thrown("analyzer error", {"custom"})
         ELSE CustomVerdict(ext)
    ELSE IF cfg.provider # "custom" /\ cfg.apiKey
    THEN AiAnalysis(cfg, t, ctx, ext, {})
    ELSE RuleBased(t, ctx, {})

(***************************************************************************)
(* ResponseGenerator                                                       *)
(***************************************************************************)
\* a custom generator or a provider that answers with the number of messages
\* it was given
EchoReply(history) == [kind |-> "text", text |-> <<"r", Len(history)>>]

\* What a custom generator or a provider call may do: throw, or return a text.
GeneratorReplies(history) == {[kind |-> "throw"], EchoReply(history)}

\* the options argument of generate: { name, role, contextFile }
NoOptions == [name |-> <<>>, role |-> <<>>, contextFile |-> <<>>]

\* what the custom generator is called with: customGenerator(transcript, history)
CustomGeneratorArgs_withOptions(t, history, options) == <<t, history, options>>

CustomGeneratorArgs(t, history, options) == <<t, history>>

\* if (!this.config.apiKey)
ApiKeyMissing_never(cfg) == FALSE

ApiKeyMissing(cfg) == ~cfg.apiKey

\* the system prompt: the role, the name (unless blank) and the context given
\* as direct content are appended to it
SystemPrompt(options) ==
    (IF options.role # <<>> THEN <<"role:">> \o options.role ELSE <<>>)
    \o (IF options.name # <<>> /\ Trim(options.name) # <<>>
        THEN <<"name:">> \o options.name ELSE <<>>)
    \o (IF options.contextFile # <<>> THEN <<"context:">> \o options.contextFile
        ELSE <<>>)

\* the messages sent to a provider: the system prompt if there is one, the
\* role and content of every history entry, the transcript as the user's turn
Messages(t, history, options) ==
    (IF SystemPrompt(options) # <<>>
     THEN <<[role |-> "system", content |-> SystemPrompt(options)]>> ELSE <<>>)
    \o [i \in 1..Len(history) |->
            [role |-> history[i].role, content |-> history[i].content]]
    \o <<[role |-> "user", content |-> t]>>

\* generate(transcript, history, options): what it calls on the way (effects)
\* and how its promise settles (result)
GenerateRun(cfg, t, history, options, ext) ==
    IF cfg.customGenerator
    THEN [effects |-> <<[op |-> "customGenerator",
                         args |-> CustomGeneratorArgs(t, history, options)]>>,
          result |-> IF ext.kind = "throw"
                     THEN [kind |-> "throw", error |-> "generator error"]
                     ELSE [kind |-> "text", text |-> ext.text]]
    ELSE IF ApiKeyMissing(cfg)
    THEN [effects |-> <<[op |-> "apiKeyCheck", args |-> <<>>]>>,
          result |-> [kind |-> "throw",
                      error |-> "API key required for response generation"]]
    ELSE IF cfg.provider \in {"openai", "anthropic"}
    THEN [effects |-> <<[op |-> "apiKeyCheck", args |-> <<>>],
                        [op |-> cfg.provider,
                         args |-> <<Messages(t, history, options)>>]>>,
          result |-> IF ext.kind = "throw"
                     THEN [kind |-> "throw", error |-> "API error"]
                     ELSE [kind |-> "text", text |-> ext.text]]
    ELSE [effects |-> <<[op |-> "apiKeyCheck", args |-> <<>>]>>,
          result |-> [kind |-> "throw", error |-> "Unknown provider"]]

\* how generate(transcript, history, options) settles
Generate(cfg, t, history, ext) == GenerateRun(cfg, t, history, NoOptions, ext).result

(***************************************************************************)
(* utils: retry                                                            *)
(***************************************************************************)
RetryMaxAttempts == 3   \* retry(fn, 3) in _processTranscript
RetryDelay == 1000      \* delay: number = 1000

\* after the failure of attempt i (0-based): wait delay * (i + 1), unless it
\* was the last attempt
\* if (i < maxAttempts - 1) does not hold
RetryLast(i, maxAttempts) == ~(i < maxAttempts - 1)

RetrySleep_exponential(i, delay) == delay * 2^i

\* setTimeout(resolve, delay * (i + 1))
RetrySleep(i, delay) == delay * (i + 1)

\* one attempt more than the 3 handed to retry
RetryGivesUp_late(i) == RetryLast(i, RetryMaxAttempts + 1)

RetryGivesUp(i) == RetryLast(i, RetryMaxAttempts)
RetryBackoff(i) == RetrySleep(i, RetryDelay)

(***************************************************************************)
(* TranscriptMonitor                                                       *)
(***************************************************************************)
DebounceMs == 1000      \* config.debounceMs ?? 1000
HistoryCap == 20        \* conversationHistory.length > 20

TBlank == <<" ">>
TQuestion == <<"i", " ", "i", "?">>
TStatement == <<"i", " ", "i", ".">>
MonitorTranscripts == {TBlank, TQuestion, TStatement}

VARIABLES
    script,               \* what the caller is going to do with the monitor
    acfg,                 \* analyzer.config
    ident,                \* config.name, config.role
    call,                 \* a direct call of analyze, generate or retry, and its result
    gcfg,                 \* generator.config
    store,                \* storage value under 'transcript'
    pendingSet,           \* updateTranscript calls suspended in await storage.set
    lastTranscript,
    silence,              \* Date.now() - lastChangeTime
    timers,               \* callbacks scheduled with setTimeout by the debounce closure
    timeout,              \* the debounce closure's handle: id of its latest timer
    isProcessing,
    cycles,               \* _processTranscript invocations past the flag, not yet finished
    conversationHistory,
    listeners,            \* event names that have a listener
    nChanges,             \* number of handleTranscriptChange calls so far
    events,               \* the emits, in order
    superseded,           \* changes followed by another while their timer was pending
    busyFired,            \* changes whose timer fired while isProcessing
    rejected,             \* changes whose cycle's promise rejected
    fullLog,              \* every message pushed since the last clearHistory
    reads,                \* what getHistory returned, since the history last changed
    watch                 \* what start() set up: subscription or poll loop

avars == <<script, acfg, ident, call>>
observed == <<events, superseded, busyFired, rejected>>
mvars == <<gcfg, store, pendingSet, lastTranscript, silence, timers, timeout,
           isProcessing, cycles, conversationHistory, listeners, nChanges,
           observed, fullLog, reads, watch>>
vars == <<avars, mvars>>

NoCall == [done |-> FALSE]

\* pollingIntervalMs ?? 500, maxPollingIntervalMs ?? 5000
DefaultPolling == [pollingIntervalMs |-> 500, maxPollingIntervalMs |-> 5000]

\* What start() keeps: the storage's capability, the once('stop') listeners,
\* the subscription, and the closure of the poll loop (currentInterval,
\* pollTimeout, the timers it scheduled, a poll suspended in storage.get).
\* polls and stops record what happened, for observation.
NewWatch(subscribe, polling) ==
    [subscribe |-> subscribe, polling |-> polling, started |-> FALSE, stops |-> 0,
     subscribed |-> FALSE, onStop |-> {}, currentInterval |-> 0, pollTimeout |-> 0,
     pollTimers |-> {}, getPending |-> FALSE, nPolls |-> 0, polls |-> <<>>]

RemoveAt(s, k) == SubSeq(s, 1, k - 1) \o SubSeq(s, k + 1, Len(s))

\* the observation log keeps what concerns the latest EventWindow changes
Recent(cid, n) == cid > n - EventWindow

Emitted(log, type, cid, payload) ==
    Append(log, [type |-> type, cid |-> cid, payload |-> payload])

\* EventEmitter.emit('error', e) throws e when nobody listens for 'error'
EmitErrorThrows == "error" \notin listeners

\* a timer armed for what is left of the window since the previous change
NewTimer_elapsed(t, silenceDuration, cid) ==
    [id |-> cid, transcript |-> t, silenceDuration |-> silenceDuration,
     remaining |-> IF silence < DebounceMs THEN DebounceMs - silence ELSE 0]

\* setTimeout(() => func(...args), wait)
NewTimer(t, silenceDuration, cid) ==
    [id |-> cid, transcript |-> t, silenceDuration |-> silenceDuration,
     remaining |-> DebounceMs]

ClearTimeout_none(pending, handle) == pending

\* if (timeout) clearTimeout(timeout)
ClearTimeout(pending, handle) == {tm \in pending : tm.id # handle}

\* the debounced function: clear the previous timer, schedule a new one
Debounce(pending, handle, t, silenceDuration, cid) ==
    ClearTimeout(pending, handle) \cup {NewTimer(t, silenceDuration, cid)}

\* handleTranscriptChange(transcript)
HandleTranscriptChange(t) ==
    LET cid == nChanges + 1
        keep(e) == Recent(e.cid, cid)
    IN  /\ nChanges' = cid
        /\ silence' = 0
        /\ lastTranscript' = t
        /\ events' = Emitted(SelectSeq(events, keep), "transcriptChanged", cid, t)
        /\ timers' = Debounce(timers, timeout, t, 0, cid)
        /\ timeout' = cid
        /\ superseded' = {c \in superseded \cup {tm.id : tm \in timers} :
                            Recent(c, cid)}
        /\ busyFired' = {c \in busyFired : Recent(c, cid)}
        /\ rejected' = {c \in rejected : Recent(c, cid)}

\* updateTranscript(transcript), up to its await: storage.set stores the value
\* and calls the subscribers
UpdateCall(t, limit) ==
    /\ nChanges + Len(pendingSet) < limit
    /\ Len(pendingSet) < MaxPending
    /\ store' = t
    /\ pendingSet' = Append(pendingSet, t)
    /\ IF watch.subscribed
       THEN HandleTranscriptChange(t)
       ELSE UNCHANGED <<lastTranscript, silence, timers, timeout, nChanges, observed>>
    /\ UNCHANGED <<avars, gcfg, isProcessing, cycles, conversationHistory, listeners,
                   fullLog, reads, watch>>

\* updateTranscript(transcript), after storage.set resolved
UpdateResume ==
    /\ pendingSet # <<>>
    /\ HandleTranscriptChange(Head(pendingSet))
    /\ pendingSet' = Tail(pendingSet)
    /\ UNCHANGED <<avars, gcfg, store, isProcessing, cycles, conversationHistory,
                   listeners, fullLog, reads, watch>>

\* TickMs pass
Tick ==
    /\ silence' = Min(silence + TickMs, MaxSilence)
    /\ timers' = {[tm EXCEPT !.remaining = Max(0, @ - TickMs)] : tm \in timers}
    /\ cycles' = [k \in DOMAIN cycles |->
                    [cycles[k] EXCEPT !.wait = Max(0, @ - TickMs)]]
    /\ watch' = [watch EXCEPT !.pollTimers =
                    {[tm EXCEPT !.remaining = Max(0, @ - TickMs)] : tm \in @}]
    /\ UNCHANGED <<avars, gcfg, store, pendingSet, lastTranscript, timeout, isProcessing,
                   conversationHistory, listeners, nChanges, observed, fullLog, reads>>

\* if (!transcript.trim()) return;
\* the test without trim()
IsBlank_emptyOnly(t) == t = <<>>

IsBlank(t) == Trim(t) = <<>>

InFlight_unchecked == FALSE

\* if (this.isProcessing) return;
InFlight == isProcessing

TimerFired_requeue(pending, tm) == IF isProcessing THEN pending ELSE pending \ {tm}

\* a timer that ran its callback is gone
TimerFired(pending, tm) == pending \ {tm}

Context_asScheduled(t) ==
    [transcript |-> t, previousTranscript |-> lastTranscript,
     silenceDuration |-> 0, name |-> ident.name, role |-> ident.role]

\* the context built at the start of a cycle
Context(t) ==
    [transcript |-> t, previousTranscript |-> lastTranscript,
     silenceDuration |-> silence, name |-> ident.name, role |-> ident.role]

\* the history argument of a generate call made after the user message was stored
HistoryArgument_withUser(history, t) ==
    Append(history, [role |-> "user", content |-> t])

\* generate(transcript, this.conversationHistory, ...): the history as the call
\* finds it
HistoryArgument(history, t) == history

\* given: the history the pending generate call of the cycle was handed
NewCycle(t, cid) ==
    [cid |-> cid, transcript |-> t, context |-> Context(t),
     stage |-> "analyze", attempt |-> 0, wait |-> 0, given |-> <<>>]

\* a debounce timer fires: _processTranscript(transcript, silenceDuration),
\* up to its first await
Fire(tm) ==
    /\ tm.remaining = 0
    /\ timers' = TimerFired(timers, tm)
    /\ busyFired' = IF ~IsBlank(tm.transcript) /\ isProcessing
                    THEN busyFired \cup {tm.id} ELSE busyFired
    /\ IF IsBlank(tm.transcript) \/ InFlight
       THEN UNCHANGED <<isProcessing, cycles>>
       ELSE /\ isProcessing' = TRUE
            /\ cycles' = Append(cycles, NewCycle(tm.transcript, tm.id))
    /\ UNCHANGED <<avars, gcfg, store, pendingSet, lastTranscript, silence, timeout,
                   conversationHistory, listeners, nChanges, events, superseded,
                   rejected, fullLog, reads, watch>>

CycleFails_flagKept(k, err) ==
    /\ events' = Emitted(events, "error", cycles[k].cid, err)
    /\ rejected' = IF EmitErrorThrows THEN rejected \cup {cycles[k].cid} ELSE rejected
    /\ isProcessing' = isProcessing
    /\ cycles' = RemoveAt(cycles, k)

\* catch (error) { this.emit('error', error) } finally { this.isProcessing = false }
CycleFails(k, err) ==
    /\ events' = Emitted(events, "error", cycles[k].cid, err)
    /\ rejected' = IF EmitErrorThrows THEN rejected \cup {cycles[k].cid} ELSE rejected
    /\ isProcessing' = FALSE
    /\ cycles' = RemoveAt(cycles, k)

\* retry: a failed attempt either waits for the next one or gives up
AttemptFails(k, err, waitStage) ==
    IF RetryGivesUp(cycles[k].attempt)
    THEN CycleFails(k, err)
    ELSE /\ cycles' = [cycles EXCEPT ![k].stage = waitStage,
                                     ![k].wait = RetryBackoff(cycles[k].attempt)]
         /\ UNCHANGED <<isProcessing, events, rejected>>

ShouldGenerate_always(res) == TRUE

\* if (analysis.shouldRespond)
ShouldGenerate(res) == res.shouldRespond

\* the awaited analyzer.analyze(transcript, context) settles
AnalyzeSettles(k, ext) ==
    LET c == cycles[k]
        res == Analyze(acfg, c.transcript, c.context, ext)
    IN  /\ c.stage = "analyze"
        /\ IF res.kind = "throw"
           THEN AttemptFails(k, res.error, "analyzeWait")
           ELSE IF ShouldGenerate(res)
           THEN /\ events' = Emitted(events, "analysisComplete", c.cid, res)
                /\ cycles' = [cycles EXCEPT
                                ![k].stage = "generate", ![k].attempt = 0,
                                ![k].given = HistoryArgument(conversationHistory,
                                                             c.transcript)]
                /\ UNCHANGED <<isProcessing, rejected>>
           ELSE /\ events' = Emitted(events, "analysisComplete", c.cid, res)
                /\ isProcessing' = FALSE
                /\ cycles' = RemoveAt(cycles, k)
                /\ UNCHANGED rejected
        /\ UNCHANGED <<avars, gcfg, store, pendingSet, lastTranscript, silence, timers,
                       timeout, conversationHistory, listeners, nChanges, superseded,
                       busyFired, fullLog, reads, watch>>

\* the backoff timer of retry expires: the next attempt starts
RetryWakes(k) ==
    /\ cycles[k].stage \in {"analyzeWait", "generateWait"}
    /\ cycles[k].wait = 0
    /\ cycles' = [cycles EXCEPT
                    ![k].stage = IF @ = "analyzeWait" THEN "analyze" ELSE "generate",
                    ![k].attempt = @ + 1,
                    ![k].given = IF cycles[k].stage = "generateWait"
                                 THEN HistoryArgument(conversationHistory,
                                                      cycles[k].transcript)
                                 ELSE @]
    /\ UNCHANGED <<avars, gcfg, store, pendingSet, lastTranscript, silence, timers,
                   timeout, isProcessing, conversationHistory, listeners, nChanges,
                   observed, fullLog, reads, watch>>

PushPair_assistantOnly(history, transcript, response) ==
    Append(history, [role |-> "assistant", content |-> response])

PushPair_responseFirst(history, transcript, response) ==
    history \o <<[role |-> "assistant", content |-> response],
                 [role |-> "user", content |-> transcript]>>

\* conversationHistory.push({role: 'user', ...}, {role: 'assistant', ...})
PushPair(history, transcript, response) ==
    history \o <<[role |-> "user", content |-> transcript],
                 [role |-> "assistant", content |-> response]>>

Truncate_head(history) ==
    IF Len(history) > HistoryCap THEN SubSeq(history, 1, HistoryCap) ELSE history

\* if (length > 20) conversationHistory = conversationHistory.slice(-20)
Truncate(history) ==
    IF Len(history) > HistoryCap
    THEN SubSeq(history, Len(history) - HistoryCap + 1, Len(history))
    ELSE history

ListenerReads_beforePush(history) ==
    IF "responseGenerated" \in listeners THEN <<conversationHistory>> ELSE <<>>

\* a listener of responseGenerated that calls getHistory() and keeps the array:
\* it runs inside emit('responseGenerated'), which comes after the push and
\* the slice
ListenerReads(history) ==
    IF "responseGenerated" \in listeners THEN <<history>> ELSE <<>>

\* the awaited generator.generate(transcript, history, options) settles
GenerateSettles(k, ext) ==
    LET c == cycles[k]
        res == Generate(gcfg, c.transcript, c.given, ext)
    IN  /\ c.stage = "generate"
        /\ IF res.kind = "throw"
           THEN /\ AttemptFails(k, res.error, "generateWait")
                /\ UNCHANGED <<conversationHistory, fullLog, reads>>
           ELSE /\ conversationHistory' =
                       Truncate(PushPair(conversationHistory, c.transcript, res.text))
                /\ fullLog' = PushPair(fullLog, c.transcript, res.text)
                /\ reads' = ListenerReads(
                       Truncate(PushPair(conversationHistory, c.transcript, res.text)))
                /\ events' = Emitted(events, "responseGenerated", c.cid, res.text)
                /\ isProcessing' = FALSE
                /\ cycles' = RemoveAt(cycles, k)
                /\ UNCHANGED rejected
        /\ UNCHANGED <<avars, gcfg, store, pendingSet, lastTranscript, silence, timers,
                       timeout, listeners, nChanges, superseded, busyFired, watch>>

\* monitor.on('error', listener)
OnError ==
    /\ "error" \notin listeners
    /\ listeners' = listeners \cup {"error"}
    /\ UNCHANGED <<avars, gcfg, store, pendingSet, lastTranscript, silence, timers,
                   timeout, isProcessing, cycles, conversationHistory, nChanges,
                   observed, fullLog, reads, watch>>

\* monitor.on('responseGenerated', () => { seen = monitor.getHistory() })
OnResponseGenerated ==
    /\ "responseGenerated" \notin listeners
    /\ listeners' = listeners \cup {"responseGenerated"}
    /\ UNCHANGED <<avars, gcfg, store, pendingSet, lastTranscript, silence, timers,
                   timeout, isProcessing, cycles, conversationHistory, nChanges,
                   observed, fullLog, reads, watch>>

\* stop(): emit('stop'); removeAllListeners()
Stop ==
    /\ listeners # {}
    /\ listeners' = {}
    /\ UNCHANGED <<avars, gcfg, store, pendingSet, lastTranscript, silence, timers,
                   timeout, isProcessing, cycles, conversationHistory, nChanges,
                   observed, fullLog, reads, watch>>

(***************************************************************************)
(* start() and stop(): subscription or adaptive polling                    *)
(***************************************************************************)
PollBackoff_uncapped(current, cap) == (current * 3) \div 2

\* Math.min(currentInterval * 1.5, maxPollingIntervalMs); the intervals of
\* PollingConfigs keep currentInterval * 1.5 whole below the cap
PollBackoff(current, cap) == Min((current * 3) \div 2, cap)

\* poll(), up to its await storage.get
PollBegins(w) == [w EXCEPT !.getPending = TRUE, !.nPolls = @ + 1]

\* pollTimeout = setTimeout(poll, currentInterval), and what the poll did
PollSchedules(w, outcome, interval) ==
    [w EXCEPT !.getPending = FALSE,
              !.currentInterval = interval,
              !.pollTimeout = w.nPolls,
              !.pollTimers = @ \cup {[id |-> w.nPolls, remaining |-> interval]},
              !.polls = Append(@, [outcome |-> outcome, before |-> w.currentInterval,
                                   after |-> interval, scheduled |-> interval,
                                   stops |-> w.stops])]

\* the poll's promise rejects before it reaches setTimeout
PollDies(w, outcome) ==
    [w EXCEPT !.getPending = FALSE,
              !.polls = Append(@, [outcome |-> outcome, before |-> w.currentInterval,
                                   after |-> w.currentInterval, scheduled |-> 0,
                                   stops |-> w.stops])]

\* start(transcriptKey)
Start ==
    /\ ~watch.started
    /\ watch' = IF watch.subscribe
                THEN [watch EXCEPT !.started = TRUE, !.subscribed = TRUE,
                                   !.onStop = @ \cup {"unsubscribe"}]
                ELSE [PollBegins(watch) EXCEPT
                         !.started = TRUE,
                         !.currentInterval = watch.polling.pollingIntervalMs,
                         !.onStop = @ \cup {"clearPoll"}]
    /\ UNCHANGED <<avars, gcfg, store, pendingSet, lastTranscript, silence, timers,
                   timeout, isProcessing, cycles, conversationHistory, listeners,
                   nChanges, observed, fullLog, reads>>

\* the storage.get awaited by poll resolves with the stored value
PollGetResolves ==
    /\ watch.getPending
    /\ IF store # lastTranscript
       THEN /\ HandleTranscriptChange(store)
            /\ watch' = PollSchedules(watch, "change", watch.polling.pollingIntervalMs)
       ELSE /\ watch' = PollSchedules(watch, "same",
                            PollBackoff(watch.currentInterval,
                                        watch.polling.maxPollingIntervalMs))
            /\ UNCHANGED <<lastTranscript, silence, timers, timeout, nChanges, observed>>
    /\ UNCHANGED <<avars, gcfg, store, pendingSet, isProcessing, cycles,
                   conversationHistory, listeners, fullLog, reads>>

\* the storage.get awaited by poll rejects: catch (error) { emit('error') };
\* the emit is recorded in watch.polls, events being the log of the cycles
PollGetRejects ==
    /\ watch.getPending
    /\ watch' = IF EmitErrorThrows
                THEN PollDies(watch, "error")
                ELSE PollSchedules(watch, "error", watch.currentInterval)
    /\ UNCHANGED <<avars, gcfg, store, pendingSet, lastTranscript, silence, timers,
                   timeout, isProcessing, cycles, conversationHistory, listeners,
                   nChanges, observed, fullLog, reads>>

\* a timer set by poll fires: the next poll begins
PollFire(tm) ==
    /\ tm \in watch.pollTimers
    /\ tm.remaining = 0
    /\ watch.nPolls < MaxPolls
    /\ watch' = PollBegins([watch EXCEPT !.pollTimers = @ \ {tm}])
    /\ UNCHANGED <<avars, gcfg, store, pendingSet, lastTranscript, silence, timers,
                   timeout, isProcessing, cycles, conversationHistory, listeners,
                   nChanges, observed, fullLog, reads>>

\* emit('stop'): the listeners start() registered with once('stop') run
EmitStop(w) ==
    [w EXCEPT !.subscribed = IF "unsubscribe" \in w.onStop THEN FALSE ELSE @,
              !.pollTimers = IF "clearPoll" \in w.onStop /\ w.pollTimeout # 0
                             THEN {tm \in @ : tm.id # w.pollTimeout} ELSE @,
              !.onStop = {}]

\* stop() of a monitor that was started: emit('stop'); removeAllListeners()
StopWatching ==
    /\ watch.started
    /\ watch.stops < MaxStops
    /\ watch' = [EmitStop(watch) EXCEPT !.stops = @ + 1]
    /\ listeners' = {}
    /\ UNCHANGED <<avars, gcfg, store, pendingSet, lastTranscript, silence, timers,
                   timeout, isProcessing, cycles, conversationHistory, nChanges,
                   observed, fullLog, reads>>

\* getHistory(): [...this.conversationHistory]
GetHistory == [i \in 1..Len(conversationHistory) |-> conversationHistory[i]]

\* a caller calls getHistory() and keeps the array it got
GetHistoryCall ==
    /\ Len(reads) < MaxReads
    /\ reads' = Append(reads, GetHistory)
    /\ UNCHANGED <<avars, gcfg, store, pendingSet, lastTranscript, silence, timers,
                   timeout, isProcessing, cycles, conversationHistory, listeners,
                   nChanges, observed, fullLog, watch>>

\* a message that does not come from a cycle
Foreign == [role |-> "assistant", content |-> <<"?">>]

EndsForeign(history) == history # <<>> /\ history[Len(history)] = Foreign

\* the caller pushes onto an array it got from getHistory(): the array is a
\* copy, conversationHistory is another array
CallerMutatesRead(i) ==
    /\ i \in DOMAIN reads
    /\ ~EndsForeign(reads[i])
    /\ reads' = [reads EXCEPT ![i] = Append(@, Foreign)]
    /\ UNCHANGED <<avars, gcfg, store, pendingSet, lastTranscript, silence, timers,
                   timeout, isProcessing, cycles, conversationHistory, listeners,
                   nChanges, observed, fullLog, watch>>

\* generate(transcript, this.conversationHistory, options) hands the custom
\* generator the monitor's own array: a push by the generator, before it
\* returns, is a push onto conversationHistory, unless clearHistory() has
\* replaced that array in the meantime
GeneratorMutatesHistory(k) ==
    /\ cycles[k].stage = "generate"
    /\ gcfg.customGenerator
    /\ ~EndsForeign(cycles[k].given)
    /\ conversationHistory' = IF cycles[k].given = conversationHistory
                              THEN Append(conversationHistory, Foreign)
                              ELSE conversationHistory
    /\ cycles' = [cycles EXCEPT ![k].given = Append(@, Foreign)]
    /\ UNCHANGED <<avars, gcfg, store, pendingSet, lastTranscript, silence, timers,
                   timeout, isProcessing, listeners, nChanges, observed,
                   fullLog, reads, watch>>

ClearHistory_unlessBusy ==
    /\ conversationHistory # <<>>
    /\ conversationHistory' = IF isProcessing THEN conversationHistory ELSE <<>>
    /\ fullLog' = <<>>
    /\ reads' = <<>>
    /\ UNCHANGED <<avars, gcfg, store, pendingSet, lastTranscript, silence, timers,
                   timeout, isProcessing, cycles, listeners, nChanges, observed, watch>>

\* clearHistory()
ClearHistory ==
    /\ conversationHistory # <<>>
    /\ conversationHistory' = <<>>
    /\ fullLog' = <<>>
    /\ reads' = <<>>
    /\ UNCHANGED <<avars, gcfg, store, pendingSet, lastTranscript, silence, timers,
                   timeout, isProcessing, cycles, listeners, nChanges, observed, watch>>

(***************************************************************************)
(* A direct call of analyze, as the unit tests make it                     *)
(***************************************************************************)
Transcripts == UNION {[1..n -> Alphabet] : n \in 0..MaxLen}

SilenceSamples == {0, 1000, 1499, 1500, 2001}

AnalyzerConfigs ==
    [provider : {NoProvider}, minWords : {Unset, 0, 2}, maxSilenceMs : {Unset, 0, 1000},
     apiKey : BOOLEAN, customAnalyzer : BOOLEAN]

NoIdentity == [name |-> <<>>, role |-> <<>>]
Identities == {NoIdentity, [name |-> <<"I">>, role |-> <<"r">>]}
RuleIdentities == [name : {<<>>, <<"I">>, <<" ">>}, role : {<<>>, <<"r">>, <<" ">>}]

AnalyzeCall(t, silenceDuration, ext) ==
    LET ctx == [transcript |-> t, previousTranscript |-> <<>>,
                silenceDuration |-> silenceDuration,
                name |-> ident.name, role |-> ident.role]
    IN  /\ call' = [done |-> TRUE, transcript |-> t, context |-> ctx,
                    custom |-> IF Branch(acfg, t, ctx) = "custom" THEN ext
                               ELSE [kind |-> "none"],
                    result |-> Analyze(acfg, t, ctx, ext)]
        /\ UNCHANGED <<script, acfg, ident, mvars>>

(***************************************************************************)
(* Specifications                                                          *)
(***************************************************************************)
MonitorAnalyzerConfigs ==
    {NewAnalyzer([provider |-> NoProvider, minWords |-> 2, maxSilenceMs |-> 1000,
                  apiKey |-> FALSE, customAnalyzer |-> ca]) : ca \in BOOLEAN}

MonitorGeneratorConfigs ==
    {[provider |-> "openai", apiKey |-> FALSE, customGenerator |-> cg] : cg \in BOOLEAN}

\* the analyzers configured on a monitor: what analyze consumes, with a custom
\* analyzer that reports a confidence of 0.8
MonitorExtChoices(cfg, t, ctx) ==
    {e \in ExtChoices(cfg, t, ctx) : e.kind = "verdict" => e.confidence = 80}

GenExtChoices(cfg, history) ==
    IF cfg.customGenerator THEN GeneratorReplies(history)
    ELSE IF ~cfg.apiKey THEN {[kind |-> "none"]}
    ELSE IF cfg.provider \in {"openai", "anthropic"} THEN GeneratorReplies(history)
    ELSE {[kind |-> "none"]}

InitMonitorFields ==
    /\ store = <<>>
    /\ pendingSet = <<>>
    /\ lastTranscript = <<>>
    /\ silence = 0
    /\ timers = {}
    /\ timeout = 0
    /\ isProcessing = FALSE
    /\ cycles = <<>>
    /\ conversationHistory = <<>>
    /\ listeners = {}
    /\ nChanges = 0
    /\ events = <<>>
    /\ superseded = {}
    /\ busyFired = {}
    /\ rejected = {}
    /\ fullLog = <<>>
    /\ reads = <<>>

\* a monitor on the default in-memory storage, with the default intervals
InitMonitorState ==
    /\ InitMonitorFields
    /\ watch = NewWatch(FALSE, DefaultPolling)

\* a monitor after construction
Init ==
    /\ script = "any"
    /\ acfg \in MonitorAnalyzerConfigs
    /\ ident = NoIdentity
    /\ call = NoCall
    /\ gcfg \in {c \in MonitorGeneratorConfigs : c.customGenerator}
    /\ InitMonitorState

Next ==
    \/ \E t \in MonitorTranscripts : UpdateCall(t, MaxChanges)
    \/ UpdateResume
    \/ Tick
    \/ \E tm \in timers : Fire(tm)
    \/ \E k \in DOMAIN cycles :
         \E ext \in MonitorExtChoices(acfg, cycles[k].transcript, cycles[k].context) :
            AnalyzeSettles(k, ext)
    \/ \E k \in DOMAIN cycles : RetryWakes(k)
    \/ \E k \in DOMAIN cycles : \E ext \in GenExtChoices(gcfg, conversationHistory) : GenerateSettles(k, ext)
    \/ OnError
    \/ Stop
    \/ ClearHistory

Spec == Init /\ [][Next]_vars

\* a long conversation: one question after the other, each answered by a
\* custom generator
InitLong ==
    /\ script = "questions"
    /\ acfg \in {c \in MonitorAnalyzerConfigs : ~c.customAnalyzer}
    /\ ident = NoIdentity
    /\ call = NoCall
    /\ gcfg \in {c \in MonitorGeneratorConfigs : c.customGenerator}
    /\ InitMonitorState

NextLong ==
    \/ UpdateCall(TQuestion, MaxChangesLong)
    \/ UpdateResume
    \/ Tick
    \/ \E tm \in timers : Fire(tm)
    \/ \E k \in DOMAIN cycles :
         \E ext \in ExtChoices(acfg, cycles[k].transcript, cycles[k].context) :
            AnalyzeSettles(k, ext)
    \/ \E k \in DOMAIN cycles :
         GenerateSettles(k, EchoReply(conversationHistory))
    \/ ClearHistory

SpecLong == InitLong /\ [][NextLong]_vars

\* a short conversation of questions whose caller reads and clears the history
InitHistory ==
    /\ script = "history"
    /\ acfg \in {c \in MonitorAnalyzerConfigs : ~c.customAnalyzer}
    /\ ident = NoIdentity
    /\ call = NoCall
    /\ gcfg \in {c \in MonitorGeneratorConfigs : c.customGenerator}
    /\ InitMonitorState

NextHistory ==
    \/ UpdateCall(TQuestion, MaxChanges)
    \/ UpdateResume
    \/ Tick
    \/ \E tm \in timers : Fire(tm)
    \/ \E k \in DOMAIN cycles :
         \E ext \in ExtChoices(acfg, cycles[k].transcript, cycles[k].context) :
            AnalyzeSettles(k, ext)
    \/ \E k \in DOMAIN cycles :
         GenerateSettles(k, EchoReply(conversationHistory))
    \/ ClearHistory
    \/ GetHistoryCall

SpecHistory == InitHistory /\ [][NextHistory]_vars

\* a monitor whose generator is misconfigured: no API key, or a provider
\* that does not exist
MisconfiguredGenerators ==
    {[provider |-> "openai", apiKey |-> FALSE, customGenerator |-> FALSE],
     [provider |-> "other", apiKey |-> TRUE, customGenerator |-> FALSE]}

InitMisconfigured ==
    /\ script = "misconfigured"
    /\ acfg \in {c \in MonitorAnalyzerConfigs : ~c.customAnalyzer}
    /\ ident = NoIdentity
    /\ call = NoCall
    /\ gcfg \in MisconfiguredGenerators
    /\ InitMonitorState

NextMisconfigured ==
    \/ UpdateCall(TQuestion, MaxChanges)
    \/ UpdateResume
    \/ Tick
    \/ \E tm \in timers : Fire(tm)
    \/ \E k \in DOMAIN cycles :
         \E ext \in ExtChoices(acfg, cycles[k].transcript, cycles[k].context) :
            AnalyzeSettles(k, ext)
    \/ \E k \in DOMAIN cycles : RetryWakes(k)
    \/ \E k \in DOMAIN cycles :
         \E ext \in GenExtChoices(gcfg, conversationHistory) : GenerateSettles(k, ext)
    \/ OnError

SpecMisconfigured == InitMisconfigured /\ [][NextMisconfigured]_vars

\* a monitor started on a storage without subscribe, whose transcript is set
\* to blanks (no cycle begins); the polling intervals are chosen
\* so that the backoff reaches the cap within MaxPolls polls, the second one
\* with a base above the cap
PollingConfigs ==
    {[pollingIntervalMs |-> 1000, maxPollingIntervalMs |-> 2000],
     [pollingIntervalMs |-> 2000, maxPollingIntervalMs |-> 1000]}

InitPolling ==
    /\ script = "poll"
    /\ acfg \in {c \in MonitorAnalyzerConfigs : ~c.customAnalyzer}
    /\ ident = NoIdentity
    /\ call = NoCall
    /\ gcfg \in {c \in MonitorGeneratorConfigs : c.customGenerator}
    /\ InitMonitorFields
    /\ watch \in {NewWatch(FALSE, pc) : pc \in PollingConfigs}

NextPolling ==
    \/ Start
    \/ UpdateCall(TBlank, MaxChanges)
    \/ UpdateResume
    \/ Tick
    \/ \E tm \in timers : Fire(tm)
    \/ PollGetResolves
    \/ PollGetRejects
    \/ \E tm \in watch.pollTimers : PollFire(tm)
    \/ OnError

SpecPolling == InitPolling /\ [][NextPolling]_vars

\* the same monitor, stopped once or twice on the way
InitPollStop ==
    /\ script = "poll and stop"
    /\ acfg \in {c \in MonitorAnalyzerConfigs : ~c.customAnalyzer}
    /\ ident = NoIdentity
    /\ call = NoCall
    /\ gcfg \in {c \in MonitorGeneratorConfigs : c.customGenerator}
    /\ InitMonitorFields
    /\ watch \in {NewWatch(FALSE, pc) : pc \in PollingConfigs}

NextPollStop ==
    \/ Start
    \/ UpdateCall(TBlank, MaxChanges)
    \/ UpdateResume
    \/ Tick
    \/ \E tm \in timers : Fire(tm)
    \/ PollGetResolves
    \/ PollGetRejects
    \/ \E tm \in watch.pollTimers : PollFire(tm)
    \/ OnError
    \/ StopWatching

SpecPollStop == InitPollStop /\ [][NextPollStop]_vars

\* a monitor started on a storage with subscribe, asked questions, and stopped
InitStopping ==
    /\ script = "stop"
    /\ acfg \in {c \in MonitorAnalyzerConfigs : ~c.customAnalyzer}
    /\ ident = NoIdentity
    /\ call = NoCall
    /\ gcfg \in {c \in MonitorGeneratorConfigs : c.customGenerator}
    /\ InitMonitorFields
    /\ watch = NewWatch(TRUE, DefaultPolling)

NextStopping ==
    \/ Start
    \/ UpdateCall(TQuestion, MaxChanges)
    \/ UpdateResume
    \/ Tick
    \/ \E tm \in timers : Fire(tm)
    \/ \E k \in DOMAIN cycles :
         \E ext \in ExtChoices(acfg, cycles[k].transcript, cycles[k].context) :
            AnalyzeSettles(k, ext)
    \/ \E k \in DOMAIN cycles :
         GenerateSettles(k, EchoReply(conversationHistory))
    \/ StopWatching

SpecStopping == InitStopping /\ [][NextStopping]_vars

\* a short conversation of questions and statements whose caller may listen
\* for responseGenerated and read the history from the listener
InitListening ==
    /\ script = "listen"
    /\ acfg \in {c \in MonitorAnalyzerConfigs : ~c.customAnalyzer}
    /\ ident = NoIdentity
    /\ call = NoCall
    /\ gcfg \in {c \in MonitorGeneratorConfigs : c.customGenerator}
    /\ InitMonitorState

NextListening ==
    \/ OnResponseGenerated
    \/ \E t \in {TQuestion, TStatement} : UpdateCall(t, MaxChanges)
    \/ UpdateResume
    \/ Tick
    \/ \E tm \in timers : Fire(tm)
    \/ \E k \in DOMAIN cycles :
         \E ext \in ExtChoices(acfg, cycles[k].transcript, cycles[k].context) :
            AnalyzeSettles(k, ext)
    \/ \E k \in DOMAIN cycles :
         GenerateSettles(k, EchoReply(conversationHistory))

SpecListening == InitListening /\ [][NextListening]_vars

\* a monitor whose transcript is set once, to a complete statement, and then
\* left alone; every step the event loop owes is eventually taken
InitStatement ==
    /\ script = "statement"
    /\ acfg \in {NewAnalyzer([provider |-> NoProvider, minWords |-> 2, maxSilenceMs |-> ms,
                               apiKey |-> FALSE, customAnalyzer |-> FALSE]) :
                     ms \in {Unset, 1000}}
    /\ ident \in Identities
    /\ call = NoCall
    /\ gcfg \in {c \in MonitorGeneratorConfigs : c.customGenerator}
    /\ InitMonitorState

NextStatement ==
    \/ nChanges + Len(pendingSet) = 0 /\ UpdateCall(TStatement, MaxChanges)
    \/ UpdateResume
    \/ Tick
    \/ \E tm \in timers : Fire(tm)
    \/ \E k \in DOMAIN cycles :
         \E ext \in ExtChoices(acfg, cycles[k].transcript, cycles[k].context) :
            AnalyzeSettles(k, ext)
    \/ \E k \in DOMAIN cycles :
         GenerateSettles(k, EchoReply(conversationHistory))
    \/ OnError
    \/ OnResponseGenerated

FairStatement ==
    /\ WF_vars(UpdateResume)
    /\ WF_vars(Tick)
    /\ WF_vars(\E tm \in timers : Fire(tm))
    /\ WF_vars(\E k \in DOMAIN cycles :
                 \E ext \in ExtChoices(acfg, cycles[k].transcript, cycles[k].context) :
                    AnalyzeSettles(k, ext))
    /\ WF_vars(\E k \in DOMAIN cycles :
                 GenerateSettles(k, EchoReply(conversationHistory)))

SpecStatement == InitStatement /\ [][NextStatement]_vars /\ FairStatement

\* a short conversation of questions whose caller and whose custom generator
\* write to the arrays they were given
InitSharing ==
    /\ script = "share"
    /\ acfg \in {c \in MonitorAnalyzerConfigs : ~c.customAnalyzer}
    /\ ident = NoIdentity
    /\ call = NoCall
    /\ gcfg \in {c \in MonitorGeneratorConfigs : c.customGenerator}
    /\ InitMonitorState

NextSharing ==
    \/ UpdateCall(TQuestion, MaxChanges)
    \/ UpdateResume
    \/ Tick
    \/ \E tm \in timers : Fire(tm)
    \/ \E k \in DOMAIN cycles :
         \E ext \in ExtChoices(acfg, cycles[k].transcript, cycles[k].context) :
            AnalyzeSettles(k, ext)
    \/ \E k \in DOMAIN cycles : GeneratorMutatesHistory(k)
    \/ \E k \in DOMAIN cycles :
         GenerateSettles(k, EchoReply(conversationHistory))
    \/ GetHistoryCall
    \/ \E i \in DOMAIN reads : CallerMutatesRead(i)
    \/ ClearHistory

SpecSharing == InitSharing /\ [][NextSharing]_vars

\* either conversation
InitAll == Init \/ InitLong

NextAll ==
    \/ script = "any" /\ Next
    \/ script = "questions" /\ NextLong

SpecAll == InitAll /\ [][NextAll]_vars

\* analyze called directly on every short transcript
InitAnalyzer ==
    /\ script = "analyze"
    /\ acfg \in {NewAnalyzer(c) : c \in AnalyzerConfigs}
    /\ ident \in Identities
    /\ call = NoCall
    /\ gcfg \in {c \in MonitorGeneratorConfigs : c.customGenerator}
    /\ InitMonitorState

NextAnalyzer ==
    /\ ~call.done
    /\ \E t \in Transcripts, s \in SilenceSamples :
         \E ext \in ExtChoices(acfg, t, [silenceDuration |-> s]) : AnalyzeCall(t, s, ext)

SpecAnalyzer == InitAnalyzer /\ [][NextAnalyzer]_vars

\* a monitor whose analyzer and generator may throw on every call; each
\* awaited call settles, each timer runs out
InitCycles ==
    /\ script = "cycles"
    /\ acfg \in MonitorAnalyzerConfigs
    /\ ident = NoIdentity
    /\ call = NoCall
    /\ gcfg \in {c \in MonitorGeneratorConfigs : c.customGenerator}
    /\ InitMonitorState

NextCycles ==
    \/ UpdateCall(TStatement, MaxChanges)
    \/ UpdateResume
    \/ Tick
    \/ \E tm \in timers : Fire(tm)
    \/ \E k \in DOMAIN cycles :
         \E ext \in MonitorExtChoices(acfg, cycles[k].transcript, cycles[k].context) :
            AnalyzeSettles(k, ext)
    \/ \E k \in DOMAIN cycles : RetryWakes(k)
    \/ \E k \in DOMAIN cycles :
         \E ext \in GenExtChoices(gcfg, conversationHistory) : GenerateSettles(k, ext)
    \/ OnError

FairCycles ==
    /\ WF_vars(Tick)
    /\ WF_vars(\E k \in DOMAIN cycles :
                 \E ext \in MonitorExtChoices(acfg, cycles[k].transcript,
                                               cycles[k].context) :
                    AnalyzeSettles(k, ext))
    /\ WF_vars(\E k \in DOMAIN cycles : RetryWakes(k))
    /\ WF_vars(\E k \in DOMAIN cycles :
                 \E ext \in GenExtChoices(gcfg, conversationHistory) :
                    GenerateSettles(k, ext))

SpecCycles == InitCycles /\ [][NextCycles]_vars /\ FairCycles

\* a monitor fed questions, the empty transcript and whitespace
BlankTranscripts == {<<>>, TBlank, <<" ", " ">>}

InitBlank ==
    /\ script = "blank"
    /\ acfg \in {c \in MonitorAnalyzerConfigs : ~c.customAnalyzer}
    /\ ident = NoIdentity
    /\ call = NoCall
    /\ gcfg \in {c \in MonitorGeneratorConfigs : c.customGenerator}
    /\ InitMonitorState

NextBlank ==
    \/ \E t \in BlankTranscripts \cup {TQuestion} : UpdateCall(t, MaxChanges)
    \/ UpdateResume
    \/ Tick
    \/ \E tm \in timers : Fire(tm)
    \/ \E k \in DOMAIN cycles :
         \E ext \in ExtChoices(acfg, cycles[k].transcript, cycles[k].context) :
            AnalyzeSettles(k, ext)
    \/ \E k \in DOMAIN cycles :
         GenerateSettles(k, EchoReply(conversationHistory))

SpecBlank == InitBlank /\ [][NextBlank]_vars

\* the caller clears the history only while a cycle is in flight
InitClearing ==
    /\ script = "clear in flight"
    /\ acfg \in {c \in MonitorAnalyzerConfigs : ~c.customAnalyzer}
    /\ ident = NoIdentity
    /\ call = NoCall
    /\ gcfg \in {c \in MonitorGeneratorConfigs : c.customGenerator}
    /\ InitMonitorState

NextClearing ==
    \/ \E t \in {TQuestion, TStatement} : UpdateCall(t, MaxChanges)
    \/ UpdateResume
    \/ Tick
    \/ \E tm \in timers : Fire(tm)
    \/ \E k \in DOMAIN cycles :
         \E ext \in ExtChoices(acfg, cycles[k].transcript, cycles[k].context) :
            AnalyzeSettles(k, ext)
    \/ \E k \in DOMAIN cycles :
         GenerateSettles(k, EchoReply(conversationHistory))
    \/ cycles # <<>> /\ ClearHistory

SpecClearing == InitClearing /\ [][NextClearing]_vars

\* a monitor whose silence threshold is the default 1500 ms or the debounce
\* window itself, fed questions, statements and blank transcripts
InitSilence ==
    /\ script = "silence"
    /\ acfg \in {NewAnalyzer([provider |-> NoProvider, minWords |-> 2, maxSilenceMs |-> ms,
                               apiKey |-> FALSE, customAnalyzer |-> FALSE]) :
                     ms \in {Unset, 1000}}
    /\ ident = NoIdentity
    /\ call = NoCall
    /\ gcfg \in {c \in MonitorGeneratorConfigs : c.customGenerator}
    /\ InitMonitorState

NextSilence ==
    \/ \E t \in MonitorTranscripts : UpdateCall(t, MaxChanges)
    \/ UpdateResume
    \/ Tick
    \/ \E tm \in timers : Fire(tm)
    \/ \E k \in DOMAIN cycles :
         \E ext \in ExtChoices(acfg, cycles[k].transcript, cycles[k].context) :
            AnalyzeSettles(k, ext)
    \/ \E k \in DOMAIN cycles :
         GenerateSettles(k, EchoReply(conversationHistory))

SpecSilence == InitSilence /\ [][NextSilence]_vars

\* analyze called directly on every short transcript and on two-word
\* transcripts that do or do not begin with a greeting
GreetingTranscripts ==
    {<<"H", "i", " ", "i">>, <<"h", "i", " ", "i", ".">>, <<"i", "H", " ", "i">>,
     <<"i", " ", "H", "i">>}

InitGates ==
    /\ script = "gates"
    /\ acfg \in {NewAnalyzer(c) : c \in AnalyzerConfigs}
    /\ ident \in Identities
    /\ call = NoCall
    /\ gcfg \in {c \in MonitorGeneratorConfigs : c.customGenerator}
    /\ InitMonitorState

NextGates ==
    /\ ~call.done
    /\ \E t \in Transcripts \cup GreetingTranscripts, s \in SilenceSamples :
         \E ext \in ExtChoices(acfg, t, [silenceDuration |-> s]) : AnalyzeCall(t, s, ext)

SpecGates == InitGates /\ [][NextGates]_vars

\* ruleBasedAnalysis applied directly, to every short transcript and to
\* transcripts of about ten one-letter words
RECURSIVE RepeatWord(_)
RepeatWord(n) == IF n <= 1 THEN <<"H">> ELSE RepeatWord(n - 1) \o <<" ", "H">>

LongTranscripts ==
    {RepeatWord(n) \o tail : n \in {LongWords, LongWords + 1},
                             tail \in {<<>>, <<" ">>, <<".">>}}

RuleCall(t, silenceDuration) ==
    LET ctx == [transcript |-> t, previousTranscript |-> <<>>,
                silenceDuration |-> silenceDuration,
                name |-> ident.name, role |-> ident.role]
    IN  /\ call' = [done |-> TRUE, transcript |-> t, context |-> ctx,
                    result |-> RuleBased(t, ctx, {})]
        /\ UNCHANGED <<script, acfg, ident, mvars>>

InitRules ==
    /\ script = "rules"
    /\ acfg = NewAnalyzer([provider |-> NoProvider, minWords |-> Unset,
                           maxSilenceMs |-> Unset, apiKey |-> FALSE,
                           customAnalyzer |-> FALSE])
    /\ ident \in RuleIdentities
    /\ call = NoCall
    /\ gcfg \in {c \in MonitorGeneratorConfigs : c.customGenerator}
    /\ InitMonitorState

NextRules ==
    /\ ~call.done
    /\ \E t \in Transcripts \cup LongTranscripts, s \in SilenceSamples : RuleCall(t, s)

SpecRules == InitRules /\ [][NextRules]_vars

(***************************************************************************)
(* A direct call of generate, as the unit tests make it                    *)
(***************************************************************************)
GeneratorConfigs ==
    [provider : {"openai", "anthropic", "custom", "other"}, apiKey : BOOLEAN,
     customGenerator : BOOLEAN]

GeneratorHistories ==
    {<<>>,
     <<[role |-> "user", content |-> <<"H", "i">>, timestamp |-> 1],
       [role |-> "assistant", content |-> <<"H", "i", "?">>, timestamp |-> 2]>>}

GenerateOptions == {NoOptions, [name |-> <<"I">>, role |-> <<"r">>, contextFile |-> <<"c">>]}

\* what the custom generator or the provider may answer: an error, the number
\* of messages, or the empty string
GeneratorCallReplies(history) ==
    GeneratorReplies(history) \cup {[kind |-> "text", text |-> <<>>]}

GenerateCall(t, history, options, reply) ==
    /\ call' = [done |-> TRUE, transcript |-> t, history |-> history,
                options |-> options, reply |-> reply,
                run |-> GenerateRun(gcfg, t, history, options, reply)]
    /\ UNCHANGED <<script, acfg, ident, mvars>>

InitGenerator ==
    /\ script = "generate"
    /\ acfg \in {c \in MonitorAnalyzerConfigs : ~c.customAnalyzer}
    /\ ident = NoIdentity
    /\ call = NoCall
    /\ gcfg \in GeneratorConfigs
    /\ InitMonitorState

NextGenerator ==
    /\ ~call.done
    /\ \E t \in Transcripts, history \in GeneratorHistories, options \in GenerateOptions :
         \E reply \in GeneratorCallReplies(history) :
            GenerateCall(t, history, options, reply)

SpecGenerator == InitGenerator /\ [][NextGenerator]_vars

(***************************************************************************)
(* A direct call of retry(fn, maxAttempts, delay)                          *)
(***************************************************************************)
RetryErrors == {"e1", "e2"}
RetryValues == {"v1"}
RetryDelays == {RetryDelay, 250}

\* retry was called: the loop is about to test i < maxAttempts
RetryStart(maxAttempts, delay) ==
    [done |-> FALSE, maxAttempts |-> maxAttempts, delay |-> delay, i |-> 0,
     pc |-> "loop", calls |-> 0, errors |-> <<>>, waits |-> <<>>,
     result |-> [kind |-> "none"]]

\* return await fn(), when fn resolves
RetryFnResolves(v) ==
    /\ ~call.done /\ call.pc = "loop" /\ call.i < call.maxAttempts
    /\ call' = [call EXCEPT !.done = TRUE, !.calls = @ + 1,
                            !.result = [kind |-> "value", value |-> v]]
    /\ UNCHANGED <<script, acfg, ident, mvars>>

\* await fn() rejects: remember the error, sleep unless this was the last attempt
RetryFnRejects(e) ==
    /\ ~call.done /\ call.pc = "loop" /\ call.i < call.maxAttempts
    /\ call' = IF RetryLast(call.i, call.maxAttempts)
               THEN [call EXCEPT !.calls = @ + 1, !.errors = Append(@, e), !.i = @ + 1]
               ELSE [call EXCEPT !.calls = @ + 1, !.errors = Append(@, e),
                                 !.pc = "sleep",
                                 !.waits = Append(@, RetrySleep(call.i, call.delay))]
    /\ UNCHANGED <<script, acfg, ident, mvars>>

\* the sleep ends: i++
RetryWakesUp ==
    /\ ~call.done /\ call.pc = "sleep"
    /\ call' = [call EXCEPT !.pc = "loop", !.i = @ + 1]
    /\ UNCHANGED <<script, acfg, ident, mvars>>

\* the loop is over: throw lastError
RetryThrows ==
    /\ ~call.done /\ call.pc = "loop" /\ ~(call.i < call.maxAttempts)
    /\ call' = [call EXCEPT !.done = TRUE,
                            !.result = [kind |-> "throw",
                                        error |-> IF call.errors = <<>> THEN "undefined"
                                                  ELSE call.errors[Len(call.errors)]]]
    /\ UNCHANGED <<script, acfg, ident, mvars>>

InitRetry ==
    /\ script = "retry"
    /\ acfg \in {c \in MonitorAnalyzerConfigs : ~c.customAnalyzer}
    /\ ident = NoIdentity
    /\ call \in {RetryStart(n, d) : n \in 0..MaxAttempts, d \in RetryDelays}
    /\ gcfg \in {c \in MonitorGeneratorConfigs : c.customGenerator}
    /\ InitMonitorState

NextRetry ==
    \/ \E v \in RetryValues : RetryFnResolves(v)
    \/ \E e \in RetryErrors : RetryFnRejects(e)
    \/ RetryWakesUp
    \/ RetryThrows

SpecRetry == InitRetry /\ [][NextRetry]_vars

\* analyze called on an analyzer that has an API key and no custom analyzer;
\* the call records what the provider replied
AIConfigs ==
    {NewAnalyzer([provider |-> p, minWords |-> 2, maxSilenceMs |-> 1000,
                  apiKey |-> TRUE, customAnalyzer |-> FALSE]) :
        p \in {NoProvider, "anthropic", "other"}}

AiCall(t, silenceDuration, reply) ==
    LET ctx == [transcript |-> t, previousTranscript |-> <<>>,
                silenceDuration |-> silenceDuration,
                name |-> ident.name, role |-> ident.role]
    IN  /\ call' = [done |-> TRUE, transcript |-> t, context |-> ctx,
                    result |-> Analyze(acfg, t, ctx, reply), reply |-> reply]
        /\ UNCHANGED <<script, acfg, ident, mvars>>

InitAI ==
    /\ script = "analyze with AI"
    /\ acfg \in AIConfigs
    /\ ident \in Identities
    /\ call = NoCall
    /\ gcfg \in {c \in MonitorGeneratorConfigs : c.customGenerator}
    /\ InitMonitorState

NextAI ==
    /\ ~call.done
    /\ \E t \in Transcripts, s \in SilenceSamples :
         \E reply \in ExtChoices(acfg, t, [silenceDuration |-> s]) : AiCall(t, s, reply)

SpecAI == InitAI /\ [][NextAI]_vars

(***************************************************************************)
(* Properties                                                              *)
(***************************************************************************)
\* positions in the observation log of the events of one type for one change
EventsOf(type, cid) ==
    {i \in DOMAIN events : events[i].type = type /\ events[i].cid = cid}

\* the transcript a change set, read from its transcriptChanged event
Changed(cid) == events[CHOOSE i \in EventsOf("transcriptChanged", cid) : TRUE].payload

\* only transcriptChanged was ever emitted for the change, and no cycle runs for it
NoCycleFor(cid) ==
    /\ \A i \in DOMAIN events :
          events[i].cid = cid => events[i].type = "transcriptChanged"
    /\ \A k \in DOMAIN cycles : cycles[k].cid # cid

\* the monitor is idle and nothing is scheduled
Quiescent == timers = {} /\ cycles = <<>> /\ pendingSet = <<>>

\* C1: in every reachable state at most one processing cycle is between
\* 'flag set' and 'flag cleared', and the flag is set exactly while one is.
C1_AtMostOneCycle == Len(cycles) <= 1 /\ (isProcessing <=> cycles # <<>>)

\* C1 witness: a later change's timer fired while a cycle was awaiting its
\* generator, and that cycle is still the only one.
C1_Witness ==
    \E c \in busyFired :
        /\ Len(cycles) = 1
        /\ cycles[1].cid < c
        /\ cycles[1].stage = "generate"

C3_BusyFiringDropped ==
    \A c \in busyFired :
        /\ NoCycleFor(c)
        /\ \A tm \in timers : tm.id # c

\* C3 witness: the timer of the latest change fired during the previous
\* change's cycle; that cycle has ended, the monitor is idle, and the latest
\* transcript is still unprocessed.
C3_Witness ==
    /\ nChanges \in busyFired
    /\ Quiescent
    /\ ~isProcessing
    /\ EventsOf("analysisComplete", nChanges - 1) # {}
    /\ EventsOf("analysisComplete", nChanges) = {}

\* C4: the history has even length, a user message at every odd position
\* (counting from 1) and an assistant message at every even one, and each
\* assistant message is a response that was generated for the transcript
\* right before it.  The last part reads the observation log and is stated
\* while the log still covers every change.
C4_HistoryInPairs ==
    /\ Len(conversationHistory) % 2 = 0
    /\ \A j \in DOMAIN conversationHistory :
          conversationHistory[j].role = IF j % 2 = 1 THEN "user" ELSE "assistant"
    /\ nChanges <= EventWindow =>
          \A j \in DOMAIN conversationHistory :
              j % 2 = 0 =>
                  \E c \in 1..nChanges :
                      /\ \E i \in EventsOf("responseGenerated", c) :
                            events[i].payload = conversationHistory[j].content
                      /\ Changed(c) = conversationHistory[j - 1].content

\* C4 witness: the history was truncated by the latest response and still
\* starts with a user message and ends with an assistant message.
C4_Witness ==
    /\ Len(fullLog) = HistoryCap + 2
    /\ Len(conversationHistory) = HistoryCap
    /\ conversationHistory[1].role = "user"
    /\ conversationHistory[HistoryCap].role = "assistant"

\* the n most recent entries of a log, in their order
LastN(log, n) == [j \in 1..Min(n, Len(log)) |-> log[Len(log) - Min(n, Len(log)) + j]]

\* C5: getHistory() never holds more than the cap, and it is the most recent
\* messages pushed since the last clearHistory, in their original order, so
\* its length is the cap exactly once more than the cap have been pushed.
C5_HistoryCapped ==
    /\ Len(GetHistory) <= HistoryCap
    /\ GetHistory = LastN(fullLog, HistoryCap)
    /\ Len(fullLog) > HistoryCap => Len(GetHistory) = HistoryCap

\* C5 witness: more messages than the cap were pushed; the oldest pair is gone
\* and the newest message is the last one retained.
C5_Witness ==
    /\ Len(fullLog) > HistoryCap
    /\ Len(GetHistory) = HistoryCap
    /\ GetHistory[2] # fullLog[2]
    /\ GetHistory[HistoryCap] = fullLog[Len(fullLog)]

\* the error the failing call of a stage throws
StageError(stage) == IF stage = "analyze" THEN "analyzer error" ELSE "generator error"

\* cycle k is at the last attempt of a stage and ends in this step without an
\* analysisComplete or responseGenerated event
FailsAt(k) ==
    /\ cycles[k].stage \in {"analyze", "generate"}
    /\ RetryGivesUp(cycles[k].attempt)
    /\ cycles' = RemoveAt(cycles, k)
    /\ ~ /\ Len(events') = Len(events) + 1
         /\ events'[Len(events')].type \in {"analysisComplete", "responseGenerated"}

\* C6: the step in which a cycle fails emits an error event carrying the
\* thrown error, leaves the history as it is and clears the flag; and the
\* history only ever changes by clearHistory or together with a
\* responseGenerated event, so a failing cycle never touches it.
C6_FailedCycle ==
    [][ /\ \A k \in DOMAIN cycles :
              FailsAt(k) =>
                  /\ events' = Emitted(events, "error", cycles[k].cid,
                                       StageError(cycles[k].stage))
                  /\ conversationHistory' = conversationHistory
                  /\ isProcessing' = FALSE
        /\ conversationHistory' # conversationHistory =>
              \/ conversationHistory' = <<>>
              \/ /\ Len(events') = Len(events) + 1
                 /\ events'[Len(events')].type = "responseGenerated"
      ]_vars

\* C6 witness: the cycle of the first change failed in its generation stage,
\* and the second change has started a cycle of its own.
C6_Witness ==
    /\ \E i \in EventsOf("error", 1) : events[i].payload = "generator error"
    /\ conversationHistory = <<>>
    /\ Len(cycles) = 1
    /\ cycles[1].cid = 2
    /\ isProcessing

\* C7: no processing cycle's promise ever rejects, whatever listeners are
\* registered.
C7_CycleNeverRejects == rejected = {}

\* the words of a transcript: maximal runs of non-whitespace
Words(t) == Cardinality({i \in 1..Len(t) : ~IsSpace(t[i]) /\ (i = 1 \/ IsSpace(t[i - 1]))})

\* C8: a transcript with fewer words than the configured minWords gets
\* shouldRespond = false, reason 'Too few words', and no other branch runs.
C8_TooFewWords ==
    call.done /\ Words(call.transcript) < acfg.minWords
        => call.result = Verdict(FALSE, ConfTooFew, <<"Too few words">>, {})

\* C8 witness: a question with too few words, after a long silence, on an
\* analyzer that has a custom analyzer and an API key.
C8_Witness ==
    /\ call.done
    /\ Words(call.transcript) < acfg.minWords
    /\ Words(call.transcript) > 0
    /\ HasQuestion(call.transcript)
    /\ call.context.silenceDuration > RuleSilenceMs
    /\ acfg.customAnalyzer /\ acfg.apiKey
    /\ ~call.result.shouldRespond

\* C9: a transcript with at least the configured minWords words that contains
\* '?' or starts with a greeting gets shouldRespond = true, confidence 0.9,
\* reason 'Question detected' if it has a '?' and 'Greeting detected'
\* otherwise, at every silence duration.
C9_TriggersRespond ==
    ( /\ call.done
      /\ Words(call.transcript) >= acfg.minWords
      /\ HasQuestion(call.transcript) \/ HasGreeting(call.transcript) )
        => call.result =
              Verdict(TRUE, ConfTrigger,
                      IF HasQuestion(call.transcript) THEN <<"Question detected">>
                      ELSE <<"Greeting detected">>, {})

\* C10: a transcript with at least the configured minWords words, no '?' and
\* no leading greeting, at a silence below the configured maxSilenceMs, gets
\* shouldRespond = false, confidence 0.5, reason 'User may still be speaking',
\* and neither the custom analyzer, the AI path nor the rules are invoked.
C10_StillSpeaking ==
    ( /\ call.done
      /\ Words(call.transcript) >= acfg.minWords
      /\ ~HasQuestion(call.transcript) /\ ~HasGreeting(call.transcript)
      /\ call.context.silenceDuration < acfg.maxSilenceMs )
        => call.result =
              Verdict(FALSE, ConfSilence, <<"User may still be speaking">>, {})

\* the fields of a result that the caller of analyze receives
Returned(res) ==
    [shouldRespond |-> res.shouldRespond, confidence |-> res.confidence,
     reason |-> res.reason]

\* the provider's reply is not a well-formed decision: not JSON, shouldRespond
\* not a boolean, confidence not a number within [0, 1], or reason not a
\* non-empty string
Malformed(reply) ==
    /\ reply.kind = "text"
    /\ \/ ~reply.json
       \/ reply.shouldRespondType # "boolean"
       \/ reply.confidenceType # "number"
       \/ reply.confidence < 0
       \/ reply.confidence > 100
       \/ reply.reasonType # "string"
       \/ reply.reason = ""

\* C11: when analyze took the AI path and the provider's reply is malformed,
\* the result is exactly what the rule-based fallback gives for the same
\* transcript and context.
C11_MalformedFallsBack ==
    ( /\ call.done
      /\ "ai" \in call.result.invoked
      /\ Malformed(call.reply) )
        => /\ call.result.kind = "verdict"
           /\ Returned(call.result)
                = Returned(RuleBased(call.transcript, call.context, {}))

\* C11 witness: the provider answered with a decision that is well-formed
\* except for a confidence of 1.5, and the verdict returned is the opposite of
\* the one in the reply.
C11_Witness ==
    /\ call.done
    /\ "ai" \in call.result.invoked
    /\ acfg.provider = "openai"
    /\ call.reply.kind = "text" /\ call.reply.json
    /\ call.reply.shouldRespondType = "boolean"
    /\ call.reply.confidenceType = "number" /\ call.reply.confidence = 150
    /\ call.reply.reasonType = "string" /\ call.reply.reason = "ok"
    /\ call.reply.shouldRespond # call.result.shouldRespond

\* C12 as stated: every result analyze returns has a confidence within
\* [0, 1], whatever produced it.
C12_ConfidenceInRange ==
    call.done /\ call.result.kind = "verdict"
        => call.result.confidence >= 0 /\ call.result.confidence <= 100

\* C12 amended: every result analyze returns that did not come from a custom
\* analyzer has a confidence within [0, 1]; a custom analyzer's result is
\* returned as it is.
C12_ConfidenceInRangeUnlessCustom ==
    call.done /\ call.result.kind = "verdict" /\ "custom" \notin call.result.invoked
        => call.result.confidence >= 0 /\ call.result.confidence <= 100

\* C12 witness: the AI path returned a verdict taken from the provider's
\* reply, on an analyzer whose identity earns the rule-based boosts.
C12_Witness ==
    /\ call.done
    /\ call.result.kind = "verdict"
    /\ call.result.invoked = {"ai"}
    /\ call.result.confidence = 70
    /\ ident # NoIdentity

\* the provider call failed or its reply cannot be parsed
ProviderFailed(cfg, reply) ==
    \/ cfg.provider \notin {"openai", "anthropic"}
    \/ reply.kind = "throw"
    \/ reply.kind = "text" /\ ~reply.json

\* C13: whenever analyze takes the AI path it resolves to a verdict; when the
\* provider call fails (network error, error-shaped body, unknown provider)
\* or the reply cannot be parsed, that verdict is the rule-based one.
C13_AIPathResolves ==
    call.done /\ Branch(acfg, call.transcript, call.context) = "ai"
        => /\ call.result.kind = "verdict"
           /\ ProviderFailed(acfg, call.reply)
                => Returned(call.result)
                     = Returned(RuleBased(call.transcript, call.context, {}))

\* C13 witness: the call to a known provider failed and analyze still
\* returned a verdict, and so it did for an unknown provider.
C13_Witness ==
    /\ call.done
    /\ Branch(acfg, call.transcript, call.context) = "ai"
    /\ \/ acfg.provider = "anthropic" /\ call.reply.kind = "throw"
       \/ acfg.provider = "other"
    /\ call.result.kind = "verdict"
    /\ call.result.invoked = {"ai", "rule"}

\* cycle k is awaiting its generator and ends in this step without an error
\* event: the generator succeeded
SucceedsAt(k) ==
    /\ cycles[k].stage = "generate"
    /\ cycles' = RemoveAt(cycles, k)
    /\ ~ /\ Len(events') = Len(events) + 1
         /\ events'[Len(events')].type = "error"

\* the user message and the assistant message of one answered transcript
Pair(transcript, response) ==
    <<[role |-> "user", content |-> transcript],
      [role |-> "assistant", content |-> response]>>

\* the step in which cycle k succeeds emits one responseGenerated event that
\* carries the generator's return value
EmitsResponse(k) ==
    events' = Emitted(events, "responseGenerated", cycles[k].cid,
                      EchoReply(conversationHistory).text)

\* C14 as stated: the step in which a cycle's generator succeeds emits one
\* responseGenerated event carrying the generator's return value and makes the
\* history two entries longer: the analysed transcript as a user message and
\* the response as an assistant message.
C14_ResponseRecorded ==
    [][ \A k \in DOMAIN cycles :
          SucceedsAt(k) =>
              /\ EmitsResponse(k)
              /\ conversationHistory' =
                    conversationHistory
                        \o Pair(cycles[k].transcript, EchoReply(conversationHistory).text)
      ]_vars

\* C14 amended: the same, except that the history is then cut to its 20 most
\* recent entries, so it is two entries longer only while it stays within the
\* cap; the new pair is always its last two entries.
C14_ResponseRecordedWithinCap ==
    [][ \A k \in DOMAIN cycles :
          SucceedsAt(k) =>
              /\ EmitsResponse(k)
              /\ Cardinality({i \in DOMAIN events' :
                                /\ events'[i].type = "responseGenerated"
                                /\ events'[i].cid = cycles[k].cid}) = 1
              /\ conversationHistory' =
                    LastN(conversationHistory
                            \o Pair(cycles[k].transcript, EchoReply(conversationHistory).text),
                          HistoryCap)
              /\ Len(conversationHistory) + 2 <= HistoryCap
                    => Len(conversationHistory') = Len(conversationHistory) + 2
      ]_vars

\* C14 witness: starting from an empty history one statement was answered by
\* a custom analyzer's positive verdict and a succeeding generator;
\* getHistory() is exactly [user, assistant].
C14_Witness ==
    /\ script = "any"
    /\ acfg.customAnalyzer
    /\ nChanges = 1
    /\ Cardinality(EventsOf("responseGenerated", 1)) = 1
    /\ GetHistory = Pair(TStatement, events[Len(events)].payload)
    /\ events[Len(events)].type = "responseGenerated"

\* this step emits analysisComplete for cycle k with a negative verdict
NegativeAt(k) ==
    /\ cycles[k].stage = "analyze"
    /\ Len(events') = Len(events) + 1
    /\ events'[Len(events')].type = "analysisComplete"
    /\ events'[Len(events')].cid = cycles[k].cid
    /\ ~events'[Len(events')].payload.shouldRespond

\* this step emits a responseGenerated event
Responds ==
    /\ Len(events') = Len(events) + 1
    /\ events'[Len(events')].type = "responseGenerated"

\* C15: the step that emits analysisComplete with a negative verdict ends the
\* cycle there (the generator is never awaited) and leaves the history as it
\* is; a responseGenerated event is only ever emitted for a change whose
\* analysisComplete carried a positive verdict; and the history only grows in
\* a step that emits responseGenerated.
C15_NegativeVerdictEndsCycle ==
    [][ /\ \A k \in DOMAIN cycles :
              NegativeAt(k) =>
                  /\ cycles' = RemoveAt(cycles, k)
                  /\ isProcessing' = FALSE
                  /\ conversationHistory' = conversationHistory
        /\ Responds =>
              \E i \in EventsOf("analysisComplete", events'[Len(events')].cid) :
                  events[i].payload.shouldRespond
        /\ Len(conversationHistory') > Len(conversationHistory) => Responds
      ]_vars

\* C15 witness: the only change got a negative verdict; the monitor is idle,
\* no response was generated and the history is empty.
C15_Witness ==
    /\ nChanges = 1
    /\ Quiescent /\ ~isProcessing
    /\ \E i \in EventsOf("analysisComplete", 1) : ~events[i].payload.shouldRespond
    /\ EventsOf("responseGenerated", 1) = {}
    /\ EventsOf("error", 1) = {}
    /\ conversationHistory = <<>>

\* C16: a getHistory() call changes nothing in the monitor and returns the
\* entries of the history; it returns the same as the previous call when the
\* history was not changed in between; and right after a clearHistory() the
\* history read by getHistory() is empty, also while a cycle is in flight.
C16_ReadAndClear ==
    [][ /\ Len(reads') = Len(reads) + 1 =>
              /\ UNCHANGED <<gcfg, store, pendingSet, lastTranscript, silence, timers,
                             timeout, isProcessing, cycles, conversationHistory,
                             listeners, nChanges, observed, fullLog>>
              /\ reads'[Len(reads')] = conversationHistory
              /\ reads # <<>> => reads'[Len(reads')] = reads[Len(reads)]
        /\ fullLog # <<>> /\ fullLog' = <<>> => GetHistory' = <<>>
      ]_vars

\* C16 witness: the history held the first answer and was cleared; while the
\* second change's cycle is in flight getHistory() was called twice and
\* returned the empty sequence both times.
C16_Witness ==
    /\ isProcessing
    /\ Len(cycles) = 1 /\ cycles[1].cid = 2
    /\ EventsOf("responseGenerated", 1) # {}
    /\ reads = << <<>>, <<>> >>

C18_ConfigErrorNotRetried ==
    \A k \in DOMAIN cycles :
        /\ cycles[k].stage # "generateWait"
        /\ cycles[k].stage = "generate" => cycles[k].attempt = 0

\* C19: without a custom generator, generate rejects with the 'API key
\* required' error whenever no API key is configured, whatever the transcript,
\* the history and the provider, and rejects with the 'Unknown provider' error
\* when a key is configured and the provider is neither openai nor anthropic;
\* in both cases no provider is called.
C19_ConfigurationErrorsPropagate ==
    (call.done /\ script = "generate" /\ ~gcfg.customGenerator) =>
        /\ ~gcfg.apiKey =>
             call.run.result =
                [kind |-> "throw", error |-> "API key required for response generation"]
        /\ (gcfg.apiKey /\ gcfg.provider \notin {"openai", "anthropic"}) =>
             call.run.result = [kind |-> "throw", error |-> "Unknown provider"]
        /\ (~gcfg.apiKey \/ gcfg.provider \notin {"openai", "anthropic"}) =>
             \A i \in DOMAIN call.run.effects : call.run.effects[i].op = "apiKeyCheck"

C19_Witness ==
    /\ call.done /\ script = "generate"
    /\ ~gcfg.customGenerator /\ ~gcfg.apiKey /\ gcfg.provider = "openai"
    /\ call.history # <<>> /\ call.transcript # <<>>
    /\ call.run.result.kind = "throw"

\* C20: with a custom generator configured, generate makes one call, to the
\* custom generator, with exactly the transcript and the history it was given
\* (no options), and settles as the custom generator did: its text unchanged,
\* or its error; no API key check and no provider call, whatever the API key
\* and the provider.
C20_CustomGeneratorDelegation ==
    (call.done /\ script = "generate" /\ gcfg.customGenerator) =>
        /\ Len(call.run.effects) = 1
        /\ call.run.effects[1].op = "customGenerator"
        /\ call.run.effects[1].args = <<call.transcript, call.history>>
        /\ call.reply.kind = "text" =>
             call.run.result = [kind |-> "text", text |-> call.reply.text]
        /\ call.reply.kind = "throw" => call.run.result.kind = "throw"

C20_Witness ==
    /\ call.done /\ script = "generate"
    /\ gcfg.customGenerator /\ ~gcfg.apiKey /\ gcfg.provider = "other"
    /\ call.options # NoOptions /\ call.history # <<>>
    /\ call.run.result = [kind |-> "text", text |-> <<"r", 2>>]

\* C21: the silence duration in the context of a cycle that begins is the
\* time elapsed since the last transcript change at that moment, not the 0
\* handed to the debounced function when the change was observed.
C21_SilenceAtExecution ==
    [][Len(cycles') > Len(cycles) =>
         /\ cycles'[Len(cycles')].context.silenceDuration = silence
         /\ \A tm \in timers \ timers' :
               cycles'[Len(cycles')].context.silenceDuration # tm.silenceDuration]_vars

C21_Witness ==
    \E k \in DOMAIN cycles : cycles[k].context.silenceDuration = 2 * DebounceMs

\* the polls a started monitor completed follow the adaptive rule: the first
\* starts from pollingIntervalMs, each starts from where the previous one
\* ended, one that saw no change ends at min(1.5 x current, cap), one that
\* saw a change ends at pollingIntervalMs, and the next poll is scheduled
\* after the interval the poll ended at
PollsAdapt ==
    \A i \in DOMAIN watch.polls :
        LET p == watch.polls[i]
            base == watch.polling.pollingIntervalMs
            cap == watch.polling.maxPollingIntervalMs
        IN  /\ p.before = IF i = 1 THEN base ELSE watch.polls[i - 1].after
            /\ p.outcome = "same" =>
                 2 * p.after = IF 3 * p.before < 2 * cap THEN 3 * p.before ELSE 2 * cap
            /\ p.outcome = "change" => p.after = base
            /\ p.scheduled # 0 => p.scheduled = p.after

C23_PollingSurvivesStoreError ==
    \A i \in DOMAIN watch.polls :
        watch.polls[i].outcome = "error" => watch.polls[i].scheduled # 0

\* C24: once stop() has returned, the subscription is gone and no poll of the
\* storage is scheduled.
C24_StopEndsObservation ==
    watch.stops > 0 => ~watch.subscribed /\ watch.pollTimers = {}

\* C25: once stop() has returned, no processing cycle begins.
C25_NoCycleAfterStop ==
    [][watch.stops > 0 => Len(cycles') <= Len(cycles)]_vars

\* C26: with a name configured and neither API key nor custom analyzer, the
\* verdict on a transcript that contains the name mentions direct addressing
\* and has a strictly higher confidence than the verdict on the same
\* transcript evaluated without a name match (stated for transcripts with
\* enough words, after a silence longer than every threshold).
C26_NameBoost ==
    (/\ call.done /\ script = "analyze"
     /\ ~acfg.apiKey /\ ~acfg.customAnalyzer
     /\ Words(call.transcript) >= MinWordsThreshold(acfg)
     /\ call.context.silenceDuration > RuleSilenceMs
     /\ call.context.name # <<>>
     /\ Includes(ToLower(call.transcript), ToLower(call.context.name))) =>
        /\ call.result.reason[1] \in {"Directly addressed",
                                      "Directly addressed, question detected",
                                      "Directly addressed, greeting detected"}
        /\ call.result.confidence >
             Analyze(acfg, call.transcript, [call.context EXCEPT !.name = <<>>],
                     [kind |-> "none"]).confidence

\* the step emits responseGenerated for change cid
RespondsTo(cid) ==
    /\ Len(events') = Len(events) + 1
    /\ events'[Len(events')].type = "responseGenerated"
    /\ events'[Len(events')].cid = cid

\* the history ends with the pair of the change answered in this step
EndsWithPair(seen, cid) ==
    /\ Len(seen) >= 2
    /\ SubSeq(seen, Len(seen) - 1, Len(seen))
         = Pair(Changed(cid), events'[Len(events')].payload)

\* C27, amended: when responseGenerated is emitted for a change,
\* transcriptChanged and then a positive analysisComplete were emitted for
\* that change before, and the pair of this cycle is already appended: a
\* responseGenerated listener that reads the history finds it at the end.
C27_PairBeforeResponse ==
    [][ \A cid \in 1..nChanges :
          RespondsTo(cid) =>
              /\ \E i \in EventsOf("transcriptChanged", cid) :
                    \E j \in EventsOf("analysisComplete", cid) :
                        i < j /\ events[j].payload.shouldRespond
              /\ "responseGenerated" \in listeners => Len(reads') = 1
              /\ \A r \in DOMAIN reads' : EndsWithPair(reads'[r], cid) ]_vars

C27_Witness ==
    /\ "responseGenerated" \in listeners
    /\ events # <<>> /\ events[Len(events)].type = "responseGenerated"
    /\ events[Len(events)].cid = 2
    /\ Len(reads) = 1 /\ Len(reads[1]) = 4
    /\ SubSeq(reads[1], 3, 4) = Pair(TStatement, events[Len(events)].payload)

\* C27 as stated: when responseGenerated is emitted for a change,
\* transcriptChanged and then a positive analysisComplete were emitted for
\* that change before, and a responseGenerated listener that reads the
\* history does not find the pair of this cycle at its end yet.
C27_EventsBeforePair ==
    [][ \A cid \in 1..nChanges :
          RespondsTo(cid) =>
              /\ \E i \in EventsOf("transcriptChanged", cid) :
                    \E j \in EventsOf("analysisComplete", cid) :
                        i < j /\ events[j].payload.shouldRespond
              /\ \A r \in DOMAIN reads' :
                    LET seen == reads'[r]
                    IN  ~ /\ Len(seen) >= 2
                          /\ SubSeq(seen, Len(seen) - 1, Len(seen))
                               = Pair(Changed(cid), events'[Len(events')].payload) ]_vars

\* C28: once the transcript has been set to a complete statement that is not
\* changed again, a responseGenerated event for it eventually occurs.
C28_StatementAnswered ==
    (nChanges = 1 /\ lastTranscript = TStatement)
        ~> (\E i \in DOMAIN events : events[i].type = "responseGenerated")

\* C29: the history changes only by a cycle appending its pair (and
\* truncating) or by clearHistory: not by a caller writing to an array it got
\* from getHistory(), and not by a custom generator writing to the history it
\* was handed.
C29_HistoryOwnedByMonitor ==
    [][ conversationHistory' # conversationHistory =>
          \/ conversationHistory' = <<>>
          \/ \E cid \in 1..nChanges :
                /\ RespondsTo(cid)
                /\ conversationHistory' =
                     LastN(conversationHistory
                             \o Pair(Changed(cid), events'[Len(events')].payload),
                           HistoryCap) ]_vars

\* A transcript that reaches the decision stage: enough words, no question
\* mark, no greeting at its start, and silence at least the threshold
PassedGates ==
    /\ Words(call.transcript) >= MinWordsThreshold(acfg)
    /\ \A i \in 1..Len(call.transcript) : call.transcript[i] # "?"
    /\ ~HasGreeting(call.transcript)
    /\ call.context.silenceDuration >= MaxSilenceThreshold(acfg)

\* C30: a supplied custom decision function is consulted exactly for the
\* transcripts that passed the word-count gate, fired no immediate trigger and
\* passed the silence gate; when consulted, what it returns (or throws) is the
\* outcome of analyze unchanged, and neither the AI path nor the rule-based
\* fallback runs, with or without an API key.
C30_CustomAnalyzerAfterGates ==
    call.done =>
      /\ "custom" \in call.result.invoked => acfg.customAnalyzer /\ PassedGates
      /\ acfg.customAnalyzer /\ PassedGates =>
            /\ call.result.invoked = {"custom"}
            /\ call.custom.kind # "none"
            /\ call.custom.kind = "throw" => call.result.kind = "throw"
            /\ call.custom.kind = "verdict" =>
                  /\ call.result.kind = "verdict"
                  /\ call.result.shouldRespond = call.custom.shouldRespond
                  /\ call.result.confidence = call.custom.confidence

\* C30 witness: with an API key configured, the custom function is consulted
\* past the gates and its out-of-scale confidence comes back as given
C30_Witness ==
    /\ call.done /\ acfg.customAnalyzer /\ acfg.apiKey /\ PassedGates
    /\ call.custom.kind = "verdict" /\ call.custom.confidence = 150
    /\ call.result.kind = "verdict" /\ call.result.confidence = 150
    /\ call.result.invoked = {"custom"}

\* The score the rule-based fallback is stated to give: boosts added from 0
\* (name 30, question 50 or else greeting 40, role 10, completion 20)
StatedNamed ==
    /\ Trim(call.context.name) # <<>>
    /\ Includes(ToLower(call.transcript), Trim(ToLower(call.context.name)))

StatedQuestion == \E i \in 1..Len(call.transcript) : call.transcript[i] = "?"

StatedGreeting == ~StatedQuestion /\ HasGreeting(call.transcript)

StatedComplete ==
    /\ \/ call.transcript # <<>>
          /\ call.transcript[Len(call.transcript)] \in {".", "!", "?"}
       \/ Words(call.transcript) > 10
    /\ call.context.silenceDuration > 2000

StatedScore ==
    (IF StatedNamed THEN 30 ELSE 0)
    + (IF StatedQuestion THEN 50 ELSE 0)
    + (IF StatedGreeting THEN 40 ELSE 0)
    + (IF Trim(call.context.role) # <<>> THEN 10 ELSE 0)
    + (IF StatedComplete THEN 20 ELSE 0)

\* C31: ruleBasedAnalysis returns the additive score clamped to [0.1, 0.95],
\* answers true exactly when the name, the question mark, the greeting or the
\* completion condition (ends in . ! ? or more than 10 words, and silence above
\* 2000 ms) fired, and otherwise answers false with 'Incomplete or unclear'.
C31_RuleBasedScoring ==
    call.done =>
      /\ call.result.confidence =
           (IF StatedScore < 10 THEN 10 ELSE IF StatedScore > 95 THEN 95 ELSE StatedScore)
      /\ call.result.shouldRespond
           = (StatedNamed \/ StatedQuestion \/ StatedGreeting \/ StatedComplete)
      /\ ~call.result.shouldRespond => call.result.reason = <<"Incomplete or unclear">>

\* C32: both gates compare against the threshold the configuration holds (the
\* configured value, or the default 5 / 1500 when the option was left out),
\* also when that value is 0: 'Too few words' exactly when the word count is
\* below minWords, and 'User may still be speaking' only when the silence is
\* below maxSilenceMs.
C32_ConfiguredThresholds ==
    call.done /\ call.result.kind = "verdict" =>
      /\ call.result.reason = <<"Too few words">>
           <=> Words(call.transcript) < acfg.minWords
      /\ call.result.reason = <<"User may still be speaking">>
           => call.context.silenceDuration < acfg.maxSilenceMs

\* C33: on a started monitor one updateTranscript(text) call emits exactly one
\* transcriptChanged(text): nothing is emitted while its storage.set runs, and
\* exactly one event with that text is emitted when the call resumes.
C33_OneChangePerUpdate ==
    [][ watch.started =>
          /\ Len(pendingSet') > Len(pendingSet) => nChanges' = nChanges
          /\ Len(pendingSet') < Len(pendingSet) =>
               /\ nChanges' = nChanges + 1
               /\ events'[Len(events')].type = "transcriptChanged"
               /\ events'[Len(events')].payload = Head(pendingSet) ]_vars

\* The transcript observed before change number cid: the payload of the
\* preceding transcriptChanged event, or the initial empty transcript
ObservedBefore(cid) ==
    IF \E i \in DOMAIN events :
         events[i].type = "transcriptChanged" /\ events[i].cid = cid - 1
    THEN LET i == CHOOSE j \in DOMAIN events :
                    events[j].type = "transcriptChanged" /\ events[j].cid = cid - 1
         IN  events[i].payload
    ELSE <<>>

\* C34: the context of every cycle that starts carries as previousTranscript
\* the transcript that was observed before the one being analysed.
C34_PreviousTranscriptIsPrior ==
    [][ Len(cycles') > Len(cycles) =>
          cycles'[Len(cycles')].context.previousTranscript
            = ObservedBefore(cycles'[Len(cycles')].cid) ]_vars

\* The transcript begins with hi, hello or hey in any letter case
BeginsWithGreeting ==
    LET low == ToLower(call.transcript)
    IN  \/ StartsWith(low, <<"h", "i">>)
        \/ StartsWith(low, <<"h", "e", "l", "l", "o">>)
        \/ StartsWith(low, <<"h", "e", "y">>)

\* C35: whenever analyze reaches the custom analyzer, the AI path or the
\* rule-based fallback, the transcript has at least minWords words, no '?', no
\* greeting at its start, and the silence is at least maxSilenceMs; so a
\* rule-based verdict reached through analyze is determined by the name match,
\* the role and the completion-plus-silence condition alone.
C35_DecisionStageInputs ==
    call.done /\ call.result.invoked # {} =>
      /\ Words(call.transcript) >= acfg.minWords
      /\ ~StatedQuestion
      /\ ~BeginsWithGreeting
      /\ call.context.silenceDuration >= acfg.maxSilenceMs
      /\ "rule" \in call.result.invoked =>
           /\ call.result.kind = "verdict"
           /\ call.result.shouldRespond = (StatedNamed \/ StatedComplete)
           /\ call.result.confidence =
                LET score == (IF StatedNamed THEN 30 ELSE 0)
                             + (IF Trim(call.context.role) # <<>> THEN 10 ELSE 0)
                             + (IF StatedComplete THEN 20 ELSE 0)
                IN  IF score < 10 THEN 10 ELSE score
           /\ call.result.reason \in
                {<<"Directly addressed">>, <<"Directly addressed", "complete statement">>,
                 <<"Complete statement">>, <<"Incomplete or unclear">>}

\* C35 witness: a two-word transcript past the gates reaches the rule-based
\* fallback, which answers on the name match alone
C35_Witness ==
    /\ call.done /\ call.result.invoked = {"rule"}
    /\ Len(call.transcript) > MaxLen
    /\ StatedNamed /\ ~StatedComplete
    /\ call.result.shouldRespond /\ call.result.confidence = 40

\* The verdict announced by a step for the cycle of change cid, if any
Announces(cid, sr, reason) ==
    /\ Len(events') = Len(events) + 1
    /\ events'[Len(events')].type = "analysisComplete"
    /\ events'[Len(events')].cid = cid
    /\ events'[Len(events')].payload.shouldRespond = sr
    /\ events'[Len(events')].payload.reason = reason

C37_ClearedHistoryStaysEmpty ==
    [][ /\ conversationHistory = <<>>
        /\ \E i \in DOMAIN events : events[i].type = "responseGenerated"
        /\ cycles # <<>>
        => conversationHistory' = <<>> ]_vars

\* C38: when a cycle succeeds, the generate call it awaited was handed the
\* history as it stood before the cycle's pair, and the pair appended has as
\* user content the transcript captured when the debounce timer fired (the
\* one announced for that change), whatever was observed since.
C38_PairOfCapturedTranscript ==
    [][ \A k \in DOMAIN cycles :
          RespondsTo(cycles[k].cid) =>
            /\ cycles[k].transcript = Changed(cycles[k].cid)
            /\ cycles[k].given = conversationHistory
            /\ conversationHistory'
                 = LastN(conversationHistory
                           \o Pair(Changed(cycles[k].cid), events'[Len(events')].payload),
                         HistoryCap) ]_vars

\* C38 witness: the first question was answered although a statement was
\* observed while its cycle was in flight; the history holds the question
C38_Witness ==
    /\ nChanges = 2 /\ lastTranscript = TStatement
    /\ Len(conversationHistory) = 2
    /\ conversationHistory[1] = [role |-> "user", content |-> TQuestion]
    /\ \E i \in DOMAIN events :
         events[i].type = "responseGenerated" /\ events[i].cid = 1

\* C39: every started cycle terminates.  No call of a cycle is beyond the
\* third attempt, the flag is set exactly while a cycle is in flight, and a
\* cycle in flight is eventually gone with the flag cleared.
C39_CyclesTerminate ==
    /\ [](\A k \in DOMAIN cycles : cycles[k].attempt + 1 <= 3)
    /\ [](isProcessing <=> cycles # <<>>)
    /\ \A cid \in 1..MaxChanges :
         (\E k \in DOMAIN cycles : cycles[k].cid = cid)
           ~> (~isProcessing /\ \A k \in DOMAIN cycles : cycles[k].cid # cid)

\* C39 witness: the cycle of the first change got its verdict, then ended
\* in an error after the generator had failed three times, and the flag is
\* cleared
C39_Witness ==
    /\ ~isProcessing /\ cycles = <<>>
    /\ nChanges = 1 /\ silence = MaxSilence
    /\ \E i \in DOMAIN events : events[i].type = "analysisComplete" /\ events[i].cid = 1
    /\ \E i \in DOMAIN events :
         /\ events[i].type = "error" /\ events[i].cid = 1
         /\ events[i].payload = "generator error"

\* The transcript is empty or made of white space only
OnlyWhitespace(t) == \A i \in 1..Len(t) : t[i] = " "

\* C40: when the debounce timer of an empty or whitespace-only transcript
\* fires, nothing is emitted, no cycle starts (no analyzer or generator call),
\* and the in-flight flag and the history stay as they are, with or without a
\* cycle in flight.
C40_BlankFiringIsNoOp ==
    [][ (\E tm \in timers :
           /\ OnlyWhitespace(tm.transcript) /\ tm.remaining = 0
           /\ timers' = timers \ {tm})
        => /\ events' = events
           /\ cycles' = cycles
           /\ isProcessing' = isProcessing
           /\ conversationHistory' = conversationHistory ]_vars

\* C40 witness: the timer of a whitespace-only second change has fired while
\* the cycle of the first change is still in flight
C40_Witness ==
    /\ nChanges = 2 /\ pendingSet = <<>>
    /\ lastTranscript # <<>> /\ OnlyWhitespace(lastTranscript)
    /\ timers = {}
    /\ isProcessing /\ Len(cycles) = 1 /\ cycles[1].cid = 1

=============================================================================
